---- MODULE Spec2Model ----
(***************************************************************************)
(* The CHIP-8 interpreter of src/src/interpreter.rs as a state machine:    *)
(* the fields of struct VM, the positions of VM::mainloop, and one action  *)
(* per step of the loop.  A Rust panic (index out of bounds, arithmetic     *)
(* overflow, panic!) ends the program: loc = "panicked".                    *)
(*                                                                         *)
(* The assembler of src/src/assembler.rs and src/src/assembler/*.rs and    *)
(* the disassembler of src/src/bin/disassembler.rs are pure functions on   *)
(* text and bytes; they are operators on strings, applied by the actions   *)
(* of the tool specifications below.                                       *)
(***************************************************************************)
EXTENDS Integers, Sequences, FiniteSets, TLC

VARIABLES
    running,          \* VM.running
    ram,              \* VM.ram: [u8; 4096]
    pc,               \* VM.pc: usize
    reg,              \* VM.reg: [u8; 16]
    reg_i,            \* VM.reg_i: u16
    stack,            \* VM.stack: [u16; 16]
    sp,               \* VM.sp: usize
    delay_timer,      \* VM.delay_timer: u8
    sound_timer,      \* VM.sound_timer: u8
    waiting_for_key,  \* VM.waiting_for_key: Option<usize>, {} is None, {x} is Some(x)
    display,          \* VM.display: [[u8; 64]; 32], display[y][x]
    volume,           \* audio_device.lock().volume: "off" (0.0) or "on" (AUDIO_VOLUME)
    loc,              \* position of the thread in VM::mainloop
    opcode,           \* mainloop's local `fetched`
    event,            \* the poll loop's local `event`: {} outside the loop body
    polled,           \* events taken from poll_iter() in this iteration
    keyboard,         \* host keyboard state last read by is_key_pressed
    tool_loc,         \* position of the assembler / disassembler run, "none" if none
    source,           \* the text given to assemble: a sequence of lines
    files,            \* the file system: path -> content (lines of text, or bytes)
    assembled,        \* the Result<Vec<u8>, Error> of assemble(source)
    listing,          \* the String of disassemble(bytes): a sequence of lines
    reassembled,      \* the Result of assemble(listing)
    argv,             \* the command line of a tool binary
    exit_code,        \* the exit code of the tool process: {} while it runs
    output_file       \* the content written to the output path: {} if none

\* the variables of the assembler and disassembler runs
toolvars == <<tool_loc, source, files, assembled, listing, reassembled, argv,
              exit_code, output_file>>

vars == <<running, ram, pc, reg, reg_i, stack, sp, delay_timer, sound_timer,
          waiting_for_key, display, volume, loc, opcode, event, polled, keyboard,
          toolvars>>

\* no assemble call has returned yet
NoResult == [ok |-> FALSE, value |-> <<>>, error |-> "none"]

\* no command line
NoArgs == [command |-> "none", argc |-> 0, writable |-> FALSE]

\* no assembler or disassembler runs
ToolIdle ==
    /\ tool_loc = "none"
    /\ source = <<>>
    /\ files = <<>>
    /\ assembled = NoResult
    /\ listing = <<>>
    /\ reassembled = NoResult
    /\ argv = NoArgs
    /\ exit_code = {}
    /\ output_file = {}

----------------------------------------------------------------------------
(* Program constants *)

DISPLAY_WIDTH == 64
DISPLAY_HEIGHT == 32
RAM_SIZE == 4096
STACK_SIZE == 16
NUM_REGS == 16
PROGRAM_START == 512
FONT_SIZE == 80

(* Bounds of the model *)

\* events one iteration of the main loop takes from the event pump
MaxEventsPerPoll == 2
\* keys the host reports as held at one read of the keyboard state
MaxKeysDown == 1

----------------------------------------------------------------------------
(* u8 / u16 arithmetic *)

Pow2(k) == 2 ^ k

\* bit k of v: (v >> k) & 1
Bit(v, k) == (v \div Pow2(k)) % 2

\* a & b, a | b, a ^ b on u8
BitAnd8(a, b) ==
    LET s[k \in 0..8] == IF k = 0 THEN 0
                         ELSE s[k - 1] + Pow2(k - 1) * (Bit(a, k - 1) * Bit(b, k - 1))
    IN s[8]

BitOr8(a, b) ==
    LET s[k \in 0..8] == IF k = 0 THEN 0
                         ELSE s[k - 1] + Pow2(k - 1) *
                              (IF Bit(a, k - 1) + Bit(b, k - 1) > 0 THEN 1 ELSE 0)
    IN s[8]

\* a pixel write that sets bits and never clears them
set_bits(a, b) == BitOr8(a, b)

BitXor8(a, b) ==
    LET s[k \in 0..8] == IF k = 0 THEN 0
                         ELSE s[k - 1] + Pow2(k - 1) * ((Bit(a, k - 1) + Bit(b, k - 1)) % 2)
    IN s[8]

\* u8::overflowing_add: (result, carry)
overflowing_add(a, b) == [result |-> (a + b) % 256, flag |-> a + b > 255]

\* u8::overflowing_sub: (result, borrow)
overflowing_sub(a, b) == [result |-> (a - b + 256) % 256, flag |-> a < b]

----------------------------------------------------------------------------
(* VM::new *)

font_data ==
    << 240, 144, 144, 144, 240,    32,  96,  32,  32, 112,
       240,  16, 240, 128, 240,   240,  16, 240,  16, 240,
       144, 144, 240,  16,  16,   240, 128, 240,  16, 240,
       240, 128, 240, 144, 240,   240,  16,  32,  64,  64,
       240, 144, 240, 144, 240,   240, 144, 240,  16, 240,
       240, 144, 240, 144, 144,   224, 144, 224, 144, 224,
       240, 128, 128, 128, 240,   224, 144, 144, 144, 224,
       240, 128, 240, 128, 240,   240, 128, 240, 128, 128 >>

\* the VM value VM::new returns: every field of the struct literal, then the font copy
new ==
    [ running         |-> TRUE,
      ram             |-> [a \in 0..(RAM_SIZE - 1) |->
                              IF a < FONT_SIZE THEN font_data[a + 1] ELSE 0],
      pc              |-> PROGRAM_START,
      reg             |-> [i \in 0..(NUM_REGS - 1) |-> 0],
      reg_i           |-> 0,
      stack           |-> [i \in 0..(STACK_SIZE - 1) |-> 0],
      sp              |-> 0,
      delay_timer     |-> 0,
      sound_timer     |-> 0,
      waiting_for_key |-> {},
      display         |-> [y \in 0..(DISPLAY_HEIGHT - 1) |->
                              [x \in 0..(DISPLAY_WIDTH - 1) |-> 0]],
      panic           |-> FALSE ]

\* VM::load_program: copy_from_slice panics when the slice passes the end of ram
load_program(vm, program) ==
    IF PROGRAM_START + Len(program) > RAM_SIZE
    THEN [vm EXCEPT !.panic = TRUE]
    ELSE [vm EXCEPT !.ram =
             [a \in PROGRAM_START..(PROGRAM_START + Len(program) - 1) |->
                 program[a - PROGRAM_START + 1]] @@ vm.ram]

----------------------------------------------------------------------------
(* Indexing: ram[i] and stack[i] panic when i is out of bounds.  Once a     *)
(* panic is raised nothing more of the handler runs.                        *)

Panic(vm) == [vm EXCEPT !.panic = TRUE]

\* a write whose index wraps around at the end of ram
ram_write_wrapping(vm, addr, value) ==
    IF vm.panic THEN vm
    ELSE [vm EXCEPT !.ram[addr % RAM_SIZE] = value]

\* self.ram[addr] = value
ram_write(vm, addr, value) ==
    IF vm.panic THEN vm
    ELSE IF addr >= RAM_SIZE THEN Panic(vm)
    ELSE [vm EXCEPT !.ram[addr] = value]

\* a push that does not test the index: the slot wraps, sp still grows
push_unchecked(vm, value) ==
    [vm EXCEPT !.stack[vm.sp % STACK_SIZE] = value, !.sp = vm.sp + 1]

\* VM::push
push(vm, value) ==
    IF vm.sp >= STACK_SIZE THEN Panic(vm)
    ELSE [vm EXCEPT !.stack[vm.sp] = value, !.sp = vm.sp + 1]

\* a pop that takes the oldest return address
pop_oldest(vm) ==
    IF vm.sp = 0 THEN [vm |-> Panic(vm), value |-> 0]
    ELSE [vm |-> [vm EXCEPT !.sp = vm.sp - 1], value |-> vm.stack[0]]

\* VM::pop: `self.sp -= 1` overflows at sp = 0: with overflow checks the
\* subtraction panics, without them sp wraps to usize::MAX and the indexing
\* on the next line panics.  Both builds panic; vm is what is left of it.
pop(vm) ==
    IF vm.sp = 0 THEN [vm |-> Panic(vm), value |-> 0]
    ELSE IF vm.sp - 1 >= STACK_SIZE THEN [vm |-> Panic(vm), value |-> 0]
    ELSE [vm |-> [vm EXCEPT !.sp = vm.sp - 1], value |-> vm.stack[vm.sp - 1]]

\* a fetch that advances pc by one byte
fetch_advance_one(vm) ==
    IF vm.pc >= RAM_SIZE \/ vm.pc + 1 >= RAM_SIZE
    THEN [vm |-> Panic(vm), value |-> 0]
    ELSE [vm    |-> [vm EXCEPT !.pc = vm.pc + 1],
          value |-> vm.ram[vm.pc] * 256 + vm.ram[vm.pc + 1]]

\* VM::fetch: the opcode at pc, big-endian, and pc advanced by 2
fetch(vm) ==
    IF vm.pc >= RAM_SIZE \/ vm.pc + 1 >= RAM_SIZE
    THEN [vm |-> Panic(vm), value |-> 0]
    ELSE [vm    |-> [vm EXCEPT !.pc = vm.pc + 2],
          value |-> vm.ram[vm.pc] * 256 + vm.ram[vm.pc + 1]]

\* VM::clear_screen (render_display only presents the frame)
clear_screen(vm) ==
    [vm EXCEPT !.display = [y \in 0..(DISPLAY_HEIGHT - 1) |->
                               [x \in 0..(DISPLAY_WIDTH - 1) |-> 0]]]

----------------------------------------------------------------------------
(* VM::draw_sprite *)

\* the sprite bit itself, 0 or 1, as the pixel value
sprite_pixel_bit(sprite_byte, bit) == Bit(sprite_byte, 7 - bit)

\* the match on (sprite_byte >> (7 - bit)) & 1
sprite_pixel_of(sprite_byte, bit) ==
    IF Bit(sprite_byte, 7 - bit) = 0 THEN 0 ELSE 255

\* the test that sets VF in the inner loop
collides(screen_pixel, sprite_pixel) ==
    screen_pixel = 1 /\ sprite_pixel = 1

\* an inner loop that wraps around the right edge instead of stopping there
RECURSIVE draw_bits_wrapping(_, _, _, _, _)
draw_bits_wrapping(vm, sprite_byte, x, y_coord, bit) ==
    IF bit >= 8 THEN vm
    ELSE LET x_coord == (x + bit) % DISPLAY_WIDTH
             sprite_pixel == sprite_pixel_of(sprite_byte, bit)
             screen_pixel == vm.display[y_coord][x_coord]
             drawn == [vm EXCEPT !.display[y_coord][x_coord] =
                                     BitXor8(screen_pixel, sprite_pixel)]
         IN draw_bits_wrapping(drawn, sprite_byte, x, y_coord, bit + 1)

\* the inner loop `for bit in 0..8`, from `bit` on
RECURSIVE draw_bits(_, _, _, _, _)
draw_bits(vm, sprite_byte, x, y_coord, bit) ==
    IF bit >= 8 THEN vm
    ELSE LET x_coord == x + bit IN
         IF x_coord >= DISPLAY_WIDTH THEN vm
         ELSE LET sprite_pixel == sprite_pixel_of(sprite_byte, bit)
                  screen_pixel == vm.display[y_coord][x_coord]
                  flagged == IF collides(screen_pixel, sprite_pixel)
                             THEN [vm EXCEPT !.reg[15] = 1]
                             ELSE vm
                  drawn == [flagged EXCEPT !.display[y_coord][x_coord] =
                                               BitXor8(screen_pixel, sprite_pixel)]
              IN draw_bits(drawn, sprite_byte, x, y_coord, bit + 1)

\* the outer loop `for byte in 0..n`, from `byte` on
RECURSIVE draw_rows(_, _, _, _, _)
draw_rows(vm, x, y, n, byte) ==
    IF byte >= n THEN vm
    ELSE LET y_coord == y + byte IN
         IF y_coord >= DISPLAY_HEIGHT THEN vm
         ELSE IF vm.reg_i + byte >= RAM_SIZE THEN Panic(vm)
         ELSE draw_rows(draw_bits(vm, vm.ram[vm.reg_i + byte], x, y_coord, 0),
                        x, y, n, byte + 1)

draw_sprite(vm, x, y, n) ==
    draw_rows([vm EXCEPT !.reg[15] = 0], x % DISPLAY_WIDTH, y % DISPLAY_HEIGHT, n, 0)

----------------------------------------------------------------------------
(* Keypad *)

MappedScancodes ==
    {"Num1", "Num2", "Num3", "Num4", "Q", "W", "E", "R",
     "A", "S", "D", "F", "Z", "X", "C", "V"}

\* the host keys the model presses: the mapped ones, Escape and one other
Scancodes == MappedScancodes \cup {"Escape", "Space"}

\* VM::scancode_to_chip8_key: Option<u8> as a set with at most one element
scancode_to_chip8_key(scancode) ==
    CASE scancode = "Num1" -> {1}
      [] scancode = "Num2" -> {2}
      [] scancode = "Num3" -> {3}
      [] scancode = "Num4" -> {12}
      [] scancode = "Q" -> {4}
      [] scancode = "W" -> {5}
      [] scancode = "E" -> {6}
      [] scancode = "R" -> {13}
      [] scancode = "A" -> {7}
      [] scancode = "S" -> {8}
      [] scancode = "D" -> {9}
      [] scancode = "F" -> {14}
      [] scancode = "Z" -> {10}
      [] scancode = "X" -> {0}
      [] scancode = "C" -> {11}
      [] scancode = "V" -> {15}
      [] OTHER -> {}

\* VM::chip8_key_to_scancode: {} stands for the panic of the last arm
chip8_key_to_scancode(chip8_key) ==
    CASE chip8_key = 1 -> {"Num1"}
      [] chip8_key = 2 -> {"Num2"}
      [] chip8_key = 3 -> {"Num3"}
      [] chip8_key = 12 -> {"Num4"}
      [] chip8_key = 4 -> {"Q"}
      [] chip8_key = 5 -> {"W"}
      [] chip8_key = 6 -> {"E"}
      [] chip8_key = 13 -> {"R"}
      [] chip8_key = 7 -> {"A"}
      [] chip8_key = 8 -> {"S"}
      [] chip8_key = 9 -> {"D"}
      [] chip8_key = 14 -> {"F"}
      [] chip8_key = 10 -> {"Z"}
      [] chip8_key = 0 -> {"X"}
      [] chip8_key = 11 -> {"C"}
      [] chip8_key = 15 -> {"V"}
      [] OTHER -> {}

\* VM::is_key_pressed: kb is the set of scancodes the host reports as held
is_key_pressed(kb, chip8_key) ==
    LET sc == chip8_key_to_scancode(chip8_key)
    IN [panic |-> sc = {}, pressed |-> sc # {} /\ sc \subseteq kb]

----------------------------------------------------------------------------
(* VM::execute *)

\* 8xy4 with the flag stored before the result
add_xy_flag_first(vm, x, y) ==
    LET r  == overflowing_add(vm.reg[x], vm.reg[y])
        v1 == [vm EXCEPT !.reg[15] = IF r.flag THEN 1 ELSE 0]
    IN [v1 EXCEPT !.reg[x] = r.result]

\* 8xy4 with the sum stored in Vy
add_xy_into_y(vm, x, y) ==
    LET r  == overflowing_add(vm.reg[x], vm.reg[y])
        v1 == [vm EXCEPT !.reg[y] = r.result]
    IN [v1 EXCEPT !.reg[15] = IF r.flag THEN 1 ELSE 0]

\* 8xy4
add_xy(vm, x, y) ==
    LET r  == overflowing_add(vm.reg[x], vm.reg[y])
        v1 == [vm EXCEPT !.reg[x] = r.result]
    IN [v1 EXCEPT !.reg[15] = IF r.flag THEN 1 ELSE 0]

\* 8xy5 with the flag stored before the result
sub_xy_flag_first(vm, x, y) ==
    LET r  == overflowing_sub(vm.reg[x], vm.reg[y])
        v1 == [vm EXCEPT !.reg[15] = IF r.flag THEN 0 ELSE 1]
    IN [v1 EXCEPT !.reg[x] = r.result]

\* 8xy5
sub_xy(vm, x, y) ==
    LET r  == overflowing_sub(vm.reg[x], vm.reg[y])
        v1 == [vm EXCEPT !.reg[x] = r.result]
    IN [v1 EXCEPT !.reg[15] = IF r.flag THEN 0 ELSE 1]

\* 8xy7
subn_xy(vm, x, y) ==
    LET r  == overflowing_sub(vm.reg[y], vm.reg[x])
        v1 == [vm EXCEPT !.reg[x] = r.result]
    IN [v1 EXCEPT !.reg[15] = IF r.flag THEN 0 ELSE 1]

\* 8xy6 that shifts Vx in place and never reads Vy
shr_x_in_place(vm, x, y) ==
    IF x = 15
    THEN [vm EXCEPT !.reg[x] = BitAnd8(vm.reg[x], 1)]
    ELSE LET v2 == [vm EXCEPT !.reg[15] = BitAnd8(vm.reg[x], 1)]
         IN [v2 EXCEPT !.reg[x] = v2.reg[x] \div 2]

\* 8xy6
shr_xy(vm, x, y) ==
    LET v1 == [vm EXCEPT !.reg[x] = vm.reg[y]]
    IN IF x = 15
       THEN [v1 EXCEPT !.reg[x] = BitAnd8(v1.reg[x], 1)]
       ELSE LET v2 == [v1 EXCEPT !.reg[15] = BitAnd8(v1.reg[x], 1)]
            IN [v2 EXCEPT !.reg[x] = v2.reg[x] \div 2]

\* 8xyE
shl_xy(vm, x, y) ==
    LET v1 == [vm EXCEPT !.reg[x] = vm.reg[y]]
        v2 == [v1 EXCEPT !.reg[15] = BitAnd8(v1.reg[x], 128) \div 128]
    IN IF x # 15
       THEN [v2 EXCEPT !.reg[x] = (v2.reg[x] * 2) % 256]
       ELSE v2

\* Fx33
store_bcd(vm, x) ==
    LET v1 == ram_write(vm, vm.reg_i, vm.reg[x] \div 100)
        v2 == ram_write(v1, vm.reg_i + 1, (vm.reg[x] \div 10) % 10)
    IN ram_write(v2, vm.reg_i + 2, vm.reg[x] % 10)

\* Fx55 that indexes from I and leaves I where it was
RECURSIVE store_regs_keeping_i(_, _, _)
store_regs_keeping_i(vm, x, i) ==
    IF i > x \/ vm.panic THEN vm
    ELSE store_regs_keeping_i(ram_write(vm, vm.reg_i + i, vm.reg[i]), x, i + 1)

\* Fx55: the loop `for i in 0..=x`, from i on
RECURSIVE store_regs(_, _, _)
store_regs(vm, x, i) ==
    IF i > x \/ vm.panic THEN vm
    ELSE LET v1 == ram_write(vm, vm.reg_i, vm.reg[i])
         IN IF v1.panic THEN v1
            ELSE store_regs([v1 EXCEPT !.reg_i = (v1.reg_i + 1) % 65536], x, i + 1)

\* Fx65 with the body of Fx55: the copy goes from the registers to ram
load_regs_storing(vm, x, i) == store_regs(vm, x, i)

\* Fx65: the loop `for i in 0..=x`, from i on
RECURSIVE load_regs(_, _, _)
load_regs(vm, x, i) ==
    IF i > x THEN vm
    ELSE IF vm.reg_i >= RAM_SIZE THEN Panic(vm)
    ELSE load_regs([vm EXCEPT !.reg[i] = vm.ram[vm.reg_i],
                               !.reg_i = (vm.reg_i + 1) % 65536], x, i + 1)

\* `if cond { self.pc += 2; }`
skip_if(vm, cond) == IF cond THEN [vm EXCEPT !.pc = vm.pc + 2] ELSE vm

\* Ex9E (want = TRUE) and ExA1 (want = FALSE)
skip_on_key(vm, kb, x, want) ==
    LET k == is_key_pressed(kb, vm.reg[x])
    IN IF k.panic THEN Panic(vm) ELSE skip_if(vm, k.pressed = want)

\* the arm `0x0000 => match opcode`
exec_0(vm, op) ==
    IF op = \h00E0 THEN clear_screen(vm)
    ELSE IF op = \h00EE
         THEN LET r == pop(vm)
              IN IF r.vm.panic THEN r.vm ELSE [r.vm EXCEPT !.pc = r.value]
         ELSE Panic(vm)

\* the arm `0x8000 => match opcode & 0x000F`
exec_8(vm, x, y, n) ==
    CASE n = 0 -> [vm EXCEPT !.reg[x] = vm.reg[y]]
      [] n = 1 -> LET v1 == [vm EXCEPT !.reg[x] = BitOr8(vm.reg[x], vm.reg[y])]
                  IN [v1 EXCEPT !.reg[15] = 0]
      [] n = 2 -> LET v1 == [vm EXCEPT !.reg[x] = BitAnd8(vm.reg[x], vm.reg[y])]
                  IN [v1 EXCEPT !.reg[15] = 0]
      [] n = 3 -> LET v1 == [vm EXCEPT !.reg[x] = BitXor8(vm.reg[x], vm.reg[y])]
                  IN [v1 EXCEPT !.reg[15] = 0]
      [] n = 4 -> add_xy(vm, x, y)
      [] n = 5 -> sub_xy(vm, x, y)
      [] n = 6 -> shr_xy(vm, x, y)
      [] n = 7 -> subn_xy(vm, x, y)
      [] n = \hE -> shl_xy(vm, x, y)
      [] OTHER -> vm

\* the arm `0xE000 => match opcode & 0x00FF`
exec_E(vm, kb, x, nn) ==
    CASE nn = \h9E -> skip_on_key(vm, kb, x, TRUE)
      [] nn = \hA1 -> skip_on_key(vm, kb, x, FALSE)
      [] OTHER -> vm

\* the arm `0xF000 => match opcode & 0x00FF`
exec_F(vm, x, nn) ==
    CASE nn = \h07 -> [vm EXCEPT !.reg[x] = vm.delay_timer]
      [] nn = \h0A -> [vm EXCEPT !.waiting_for_key = {x}]
      [] nn = \h15 -> [vm EXCEPT !.delay_timer = vm.reg[x]]
      [] nn = \h18 -> [vm EXCEPT !.sound_timer = vm.reg[x]]
      [] nn = \h1E -> [vm EXCEPT !.reg_i = (vm.reg_i + vm.reg[x]) % 65536]
      [] nn = \h29 -> [vm EXCEPT !.reg_i = vm.reg[x] * 5]
      [] nn = \h33 -> store_bcd(vm, x)
      [] nn = \h55 -> store_regs(vm, x, 0)
      [] nn = \h65 -> load_regs(vm, x, 0)
      [] OTHER -> vm

\* VM::execute.  rnd is the byte rand::random::<u8>() returns, kb the keyboard
\* state the host reports to is_key_pressed.
execute(vm, op, rnd, kb) ==
    LET nnn == op % 4096
        nn  == op % 256
        n   == op % 16
        x   == (op \div 256) % 16
        y   == (op \div 16) % 16
        top == op \div 4096
    IN CASE top = 0 -> exec_0(vm, op)
         [] top = 1 -> [vm EXCEPT !.pc = nnn]
         [] top = 2 -> LET v1 == push(vm, vm.pc % 65536)
                       IN IF v1.panic THEN v1 ELSE [v1 EXCEPT !.pc = nnn]
         [] top = 3 -> skip_if(vm, vm.reg[x] = nn)
         [] top = 4 -> skip_if(vm, vm.reg[x] # nn)
         [] top = 5 -> skip_if(vm, vm.reg[x] = vm.reg[y])
         [] top = 6 -> [vm EXCEPT !.reg[x] = nn]
         [] top = 7 -> [vm EXCEPT !.reg[x] = (vm.reg[x] + nn) % 256]
         [] top = 8 -> exec_8(vm, x, y, n)
         [] top = 9 -> skip_if(vm, vm.reg[x] # vm.reg[y])
         [] top = \hA -> [vm EXCEPT !.reg_i = nnn]
         [] top = \hB -> [vm EXCEPT !.pc = (nnn + vm.reg[0]) % 65536]
         [] top = \hC -> [vm EXCEPT !.reg[x] = BitAnd8(rnd, nn)]
         [] top = \hD -> draw_sprite(vm, vm.reg[x], vm.reg[y], n)
         [] top = \hE -> exec_E(vm, kb, x, nn)
         [] top = \hF -> exec_F(vm, x, nn)
         [] OTHER -> vm

----------------------------------------------------------------------------
(* The host: events, the random source, the keyboard *)

\* the keys whose press the model delivers: Escape, which the event loop
\* matches, and three of the keys whose press it ignores
PressedScancodes == {"Escape", "X", "Num4", "Space"}

\* the events poll_iter() yields: key presses, the release of every key, and
\* any other event
Events ==
    [kind : {"KeyDown"}, scancode : PressedScancodes]
        \cup [kind : {"KeyUp"}, scancode : Scancodes]
        \cup {[kind |-> "Other", scancode |-> "None"]}

\* the bytes rand::random::<u8>() returns in the model
RandomBytes == {0, 90, 255}

\* the sets of at most k held keys
RECURSIVE KeySets(_)
KeySets(k) ==
    IF k = 0 THEN {{}}
    ELSE LET prev == KeySets(k - 1)
         IN prev \cup {held \cup {sc} : held \in prev, sc \in Scancodes}

KeyboardStates == KeySets(MaxKeysDown)

----------------------------------------------------------------------------
(* VM::mainloop, one action per step *)

\* the VM value the variables hold
VM ==
    [ running |-> running, ram |-> ram, pc |-> pc, reg |-> reg, reg_i |-> reg_i,
      stack |-> stack, sp |-> sp, delay_timer |-> delay_timer,
      sound_timer |-> sound_timer, waiting_for_key |-> waiting_for_key,
      display |-> display, panic |-> FALSE ]

\* the variables take the fields of vm
Becomes(vm) ==
    /\ running' = vm.running
    /\ ram' = vm.ram
    /\ pc' = vm.pc
    /\ reg' = vm.reg
    /\ reg_i' = vm.reg_i
    /\ stack' = vm.stack
    /\ sp' = vm.sp
    /\ delay_timer' = vm.delay_timer
    /\ sound_timer' = vm.sound_timer
    /\ waiting_for_key' = vm.waiting_for_key
    /\ display' = vm.display

vmvars == <<running, ram, pc, reg, reg_i, stack, sp, delay_timer, sound_timer,
            waiting_for_key, display>>

\* a delay timer update without the test for zero: u8 wrapping_sub
tick_delay_wrapping(dt) == (dt + 255) % 256

\* the body of `if last_timer_update.elapsed() >= ...`: delay timer
tick_delay(dt) == IF dt > 0 THEN dt - 1 ELSE dt

\* the body of `if last_timer_update.elapsed() >= ...`: sound timer
tick_sound(st) == IF st >= 1 THEN st - 1 ELSE st

\* an event loop body that ends the wait on the key press, not the release
handle_event_on_press(vm, e) ==
    LET v1 == IF e.kind = "KeyDown" /\ e.scancode = "Escape"
              THEN [vm EXCEPT !.running = FALSE]
              ELSE vm
    IN IF e.kind = "KeyDown" /\ v1.waiting_for_key # {}
       THEN LET register  == CHOOSE r \in v1.waiting_for_key : TRUE
                chip8_key == scancode_to_chip8_key(e.scancode)
            IN IF chip8_key # {}
               THEN [v1 EXCEPT !.reg[register] = CHOOSE k \in chip8_key : TRUE,
                               !.waiting_for_key = {}]
               ELSE v1
       ELSE v1

\* the body of `for event in self.event_pump.poll_iter()`
handle_event(vm, e) ==
    LET v1 == IF e.kind = "KeyDown" /\ e.scancode = "Escape"
              THEN [vm EXCEPT !.running = FALSE]
              ELSE vm
    IN IF e.kind = "KeyUp" /\ v1.waiting_for_key # {}
       THEN LET register  == CHOOSE r \in v1.waiting_for_key : TRUE
                chip8_key == scancode_to_chip8_key(e.scancode)
            IN IF chip8_key # {}
               THEN [v1 EXCEPT !.reg[register] = CHOOSE k \in chip8_key : TRUE,
                               !.waiting_for_key = {}]
               ELSE v1
       ELSE v1

\* a loop test that does not read `running`
LoopTestIgnoresRunning ==
    /\ loc = "while"
    /\ loc' = "timer"
    /\ UNCHANGED <<vmvars, volume, opcode, event, polled, keyboard, toolvars>>

\* `while self.running`
LoopTest ==
    /\ loc = "while"
    /\ loc' = IF running THEN "timer" ELSE "exited"
    /\ UNCHANGED <<vmvars, volume, opcode, event, polled, keyboard, toolvars>>

\* `if last_timer_update.elapsed() >= 1/60 s`: the clock decides
TimerCheck ==
    /\ loc = "timer"
    /\ \E due \in BOOLEAN : loc' = IF due THEN "tick" ELSE "poll"
    /\ UNCHANGED <<vmvars, volume, opcode, event, polled, keyboard, toolvars>>

\* the 60 Hz timer update
TimerTick ==
    /\ loc = "tick"
    /\ delay_timer' = tick_delay(delay_timer)
    /\ sound_timer' = tick_sound(sound_timer)
    /\ volume' = IF sound_timer >= 1 THEN "on" ELSE "off"
    /\ loc' = "poll"
    /\ UNCHANGED <<running, ram, pc, reg, reg_i, stack, sp, waiting_for_key,
                   display, opcode, event, polled, keyboard, toolvars>>

\* one turn of the event loop
PollEvent ==
    /\ loc = "poll"
    /\ polled < MaxEventsPerPoll
    /\ \E e \in Events :
         /\ event' = {e}
         /\ Becomes(handle_event(VM, e))
    /\ polled' = polled + 1
    /\ UNCHANGED <<volume, loc, opcode, keyboard, toolvars>>

\* a loop that runs the timer update after the event loop
PollEndThenTimer ==
    /\ loc = "poll"
    /\ event' = {}
    /\ polled' = 0
    /\ loc' = "timer"
    /\ UNCHANGED <<vmvars, volume, opcode, keyboard, toolvars>>

\* poll_iter() has no more events
PollEnd ==
    /\ loc = "poll"
    /\ event' = {}
    /\ polled' = 0
    /\ loc' = "suspend"
    /\ UNCHANGED <<vmvars, volume, opcode, keyboard, toolvars>>

\* a loop that goes on to the fetch whether or not a key is awaited
SuspendCheckSkipped ==
    /\ loc = "suspend"
    /\ loc' = "fetch"
    /\ UNCHANGED <<vmvars, volume, opcode, event, polled, keyboard, toolvars>>

\* `if self.waiting_for_key.is_some() { continue; }`
SuspendCheck ==
    /\ loc = "suspend"
    /\ loc' = IF waiting_for_key # {} THEN "while" ELSE "fetch"
    /\ UNCHANGED <<vmvars, volume, opcode, event, polled, keyboard, toolvars>>

\* `let fetched = self.fetch()`
Fetch ==
    /\ loc = "fetch"
    /\ LET r == fetch(VM)
       IN /\ Becomes(r.vm)
          /\ opcode' = IF r.vm.panic THEN opcode ELSE r.value
          /\ loc' = IF r.vm.panic THEN "panicked" ELSE "execute"
    /\ UNCHANGED <<volume, event, polled, keyboard, toolvars>>

\* `self.execute(fetched)`
Execute ==
    /\ loc = "execute"
    /\ \E rnd \in (IF opcode \div 4096 = \hC THEN RandomBytes ELSE {0}),
          kb \in (IF opcode \div 4096 = \hE THEN KeyboardStates ELSE {keyboard}) :
         LET vm == execute(VM, opcode, rnd, kb)
         IN /\ Becomes(vm)
            /\ keyboard' = kb
            /\ loc' = IF vm.panic THEN "panicked" ELSE "sleep"
    /\ UNCHANGED <<volume, opcode, event, polled, toolvars>>

\* `std::thread::sleep(cycle_duration - elapsed)` and the end of the loop body
Sleep ==
    /\ loc = "sleep"
    /\ loc' = "while"
    /\ UNCHANGED <<vmvars, volume, opcode, event, polled, keyboard, toolvars>>

----------------------------------------------------------------------------
(* ROMs *)

\* the bytes of a sequence of 16-bit words, big-endian
Words(ws) == [i \in 1..(2 * Len(ws)) |->
                 IF i % 2 = 1 THEN ws[(i + 1) \div 2] \div 256
                              ELSE ws[i \div 2] % 256]

\* CALL 0x200 at 0x200: recursion until the stack is full
RomCallSelf == Words(<<\h2200>>)
\* RET with an empty stack
RomRetEmpty == Words(<<\h00EE>>)
\* CALL 0x204; (0x202) 0000; (0x204) RET
RomCallRet == Words(<<\h2204, \h0000, \h00EE>>)
\* JP 0x203: the bytes at 0x203 are 60 01 (LD V0, 1), 12 06 (JP 0x206), then 06 00
RomOddJump == Words(<<\h1203, \h0060, \h0112, \h0600>>)
\* LD V0, 1; JP V0, 0x206
RomOddIndexedJump == Words(<<\h6001, \hB206>>)
\* SE V0, 0; 0000; SNE V0, 0; SE V0, V1; 0000; SNE V0, V1; JP 0x20C (itself)
RomSkips == Words(<<\h3000, \h0000, \h4000, \h5010, \h0000, \h9010, \h120C>>)
\* LD V0, 7; LD V1, 123; LD I, 0x300; LD B, V1; LD I, 0x310; LD [I], V1;
\* LD V2, 3; LD F, V2 (I = 15); LD V1, [I]; LD B, V1; LD [I], V0; JP 0x216 (itself)
RomFontWrites ==
    Words(<<\h6007, \h617B, \hA300, \hF133, \hA310, \hF155, \h6203, \hF229,
            \hF165, \hF133, \hF055, \h1216>>)
\* LD V0, 2; LD DT, V0; LD V1, 1; LD ST, V1; LD V2, DT; JP 0x208
RomTimers == Words(<<\h6002, \hF015, \h6101, \hF118, \hF207, \h1208>>)
\* LD V0, 2; LD DT, V0; LD V3, 200; LD V3, K; ADD V3, 1; JP 0x20A (itself)
RomWaitKey == Words(<<\h6002, \hF015, \h63C8, \hF30A, \h7301, \h120A>>)

\* LD V0, 5; LD V1, 3; ADD V0, V1; 0000
RomAddThenNative == Words(<<\h6005, \h6103, \h8014, \h0000>>)
\* words outside the instruction set: 8128, E1FF, F1FF, 9121, 5121, then 0000
\* and JP 0x20C (itself)
RomUndefined ==
    Words(<<\h8128, \hE1FF, \hF1FF, \h9121, \h5121, \h0000, \h120C>>)

Programs ==
    {RomCallSelf, RomRetEmpty, RomCallRet, RomOddJump, RomOddIndexedJump,
     RomSkips, RomFontWrites, RomTimers, RomWaitKey, RomAddThenNative,
     RomUndefined}

----------------------------------------------------------------------------
(* The interpreter started on one of the ROMs *)

Init ==
    \E program \in Programs :
        LET vm == load_program(new, program)
        IN /\ running = vm.running
           /\ ram = vm.ram
           /\ pc = vm.pc
           /\ reg = vm.reg
           /\ reg_i = vm.reg_i
           /\ stack = vm.stack
           /\ sp = vm.sp
           /\ delay_timer = vm.delay_timer
           /\ sound_timer = vm.sound_timer
           /\ waiting_for_key = vm.waiting_for_key
           /\ display = vm.display
           /\ volume = "off"
           /\ loc = IF vm.panic THEN "panicked" ELSE "while"
           /\ opcode = 0
           /\ event = {}
           /\ polled = 0
           /\ keyboard = {}
           /\ ToolIdle

Next ==
    \/ LoopTest
    \/ TimerCheck
    \/ TimerTick
    \/ PollEvent
    \/ PollEnd
    \/ SuspendCheck
    \/ Fetch
    \/ Execute
    \/ Sleep

Spec == Init /\ [][Next]_vars

----------------------------------------------------------------------------
(* The loop with a host that delivers no events *)

NextQuiet ==
    \/ LoopTest
    \/ TimerCheck
    \/ TimerTick
    \/ PollEnd
    \/ SuspendCheck
    \/ Fetch
    \/ Execute
    \/ Sleep

\* the interpreter's variables hold vm, at position l of the loop, with
\* `fetched` = op
VmAt(vm, l, op) ==
    /\ running = vm.running
    /\ ram = vm.ram
    /\ pc = vm.pc
    /\ reg = vm.reg
    /\ reg_i = vm.reg_i
    /\ stack = vm.stack
    /\ sp = vm.sp
    /\ delay_timer = vm.delay_timer
    /\ sound_timer = vm.sound_timer
    /\ waiting_for_key = vm.waiting_for_key
    /\ display = vm.display
    /\ volume = "off"
    /\ loc = IF vm.panic THEN "panicked" ELSE l
    /\ opcode = op
    /\ event = {}
    /\ polled = 0
    /\ keyboard = {}

\* the interpreter starts in that state, and no tool runs
Starts(vm, l, op) == VmAt(vm, l, op) /\ ToolIdle

\* k iterations of the loop body's fetch and execute, with no event and no
\* timer update in between
RECURSIVE run(_, _)
run(vm, k) ==
    IF k = 0 \/ vm.panic THEN vm
    ELSE LET f == fetch(vm)
         IN IF f.vm.panic THEN f.vm
            ELSE run(execute(f.vm, f.value, 0, {}), k - 1)

----------------------------------------------------------------------------
(* Sprite drawing: ROMs that draw, draw again and clear *)

\* 0x212, the byte after the JP
SpriteAddr == PROGRAM_START + 18

\* LD I, sprite; LD V0, a; LD V1, b; DRW V0, V1, n; ADD V0, dx; DRW V0, V1, n;
\* CLS; DRW V0, V1, n; JP 0x210 (itself); then the sprite rows
DrawRom(a, b, n, dx, sprite) ==
    Words(<<\hA000 + SpriteAddr, \h6000 + a, \h6100 + b, \hD010 + n, \h7000 + dx,
            \hD010 + n, \h00E0, \hD010 + n, \h1210>>) \o sprite

\* LD I, sprite; LD V0, a; LD V1, b; DRW V0, V1, n; ADD V0, dx; then the same
\* DRW V0, V1, n twice in a row; JP 0x20E (itself); a padding word; then the
\* sprite rows
DrawTwiceRom(a, b, n, dx, sprite) ==
    Words(<<\hA000 + SpriteAddr, \h6000 + a, \h6100 + b, \hD010 + n, \h7000 + dx,
            \hD010 + n, \hD010 + n, \h120E, \h0000>>) \o sprite

SpriteSamples ==
    { <<255, 0, 255, 0, 255, 0, 255, 0, 255, 0, 255, 0, 255, 0, 255>>,
      <<129, 60, 165, 255, 1, 128, 24, 231, 90, 15, 240, 51, 204, 85, 170>> }

DrawXSamples == {0, 60, 63, 70, 255}
DrawYSamples == {0, 29, 31, 40}
DrawRowSamples == {0, 1, 5, 15}
DrawShiftSamples == {0, 4}

InitDraw ==
    \E a \in DrawXSamples, b \in DrawYSamples, n \in DrawRowSamples,
       dx \in DrawShiftSamples, sprite \in SpriteSamples :
        \E rom \in {DrawRom(a, b, n, dx, sprite), DrawTwiceRom(a, b, n, dx, sprite)} :
            Starts(load_program(new, rom), "while", 0)

SpecDraw == InitDraw /\ [][NextQuiet]_vars

----------------------------------------------------------------------------
(* Subroutines: ROMs of k nested calls.  Block i stands at 0x200 + 4 * i:   *)
(* block 0 is CALL block 1; JP 0x202 (itself), block i is CALL block i + 1; *)
(* RET, and the last block, k, is RET.                                      *)

BlockAddr(i) == PROGRAM_START + 4 * i

CallRom(k) ==
    Words([j \in 1..(2 * k + 2) |->
              LET i == (j - 1) \div 2
              IN IF j % 2 = 1
                 THEN (IF i < k THEN \h2000 + BlockAddr(i + 1) ELSE \h00EE)
                 ELSE (IF i = 0 THEN \h1202 ELSE IF i < k THEN \h00EE ELSE \h0000)])

\* every nesting depth the stack has room for
InitCall ==
    \E k \in 1..STACK_SIZE :
        Starts(load_program(new, CallRom(k)), "while", 0)

SpecCall == InitCall /\ [][NextQuiet]_vars

----------------------------------------------------------------------------
(* Register blocks: V0..Vx stored at I, overwritten, and loaded back *)

\* LD V0, a; LD V1, b; LD V2, c; LD VF, 9; LD I, addr; LD [I], Vx; LD V0, 77;
\* LD V1, 78; LD VF, 79; LD I, addr; LD Vx, [I]; JP 0x216 (itself)
BlockRom(x, addr, a, b, c) ==
    Words(<<\h6000 + a, \h6100 + b, \h6200 + c, \h6F09, \hA000 + addr,
            \hF055 + 256 * x, \h604D, \h614E, \h6F4F, \hA000 + addr,
            \hF065 + 256 * x, \h1216>>)

BlockRegSamples == {0, 1, 2, 15}
\* the last has room for one byte, the one before for two, the second for sixteen
BlockAddrSamples == {\h300, \hFF0, \hFFE, \hFFF}

InitBlock ==
    \E x \in BlockRegSamples, addr \in BlockAddrSamples,
       a \in {1, 200}, c \in {3, 255} :
        Starts(load_program(new, BlockRom(x, addr, a, 2, c)), "while", 0)

SpecBlock == InitBlock /\ [][NextQuiet]_vars

----------------------------------------------------------------------------
(* Key tests: SKP V0 or SKNP V0 on a chosen V0 *)

\* LD V0, v; op; LD V1, 1; JP 0x206 (itself)
KeyRom(v, op) == Words(<<\h6000 + v, op, \h6101, \h1206>>)

KeyValueSamples == {0, 5, 12, 15, 16, 21, 255}

InitKey ==
    \E v \in KeyValueSamples, op \in {\hE09E, \hE0A1} :
        Starts(load_program(new, KeyRom(v, op)), "while", 0)

SpecKey == InitKey /\ [][NextQuiet]_vars

----------------------------------------------------------------------------
(* The end of RAM: I and PC taken to the last addresses and past them *)

\* LD V0, v; LD I, nnn; ADD I, V0; op; JP 0x208 (itself)
EdgeRom(v, nnn, op) ==
    Words(<<\h6000 + v, \hA000 + nnn, \hF01E, op, \h1208>>)

EdgeOps == {\hF033, \hF055, \hF255, \hF065, \hF265, \hD005, \hD00F, \hD000}
EdgeAddrs == {\hFFC, \hFFD, \hFFE, \hFFF}
EdgeOffsets == {0, 1, 2, 255}

\* LD V0, 255; LD I, 0xFFF; ADD I, V0 241 times, which takes I past 0xFFFF;
\* LD V0, [I]; JP 0x3E8 (itself)
WrapRom ==
    Words(<<\h60FF, \hAFFF>> \o [i \in 1..241 |-> \hF01E] \o <<\hF065, \h13E8>>)

\* JP 0xFFE, and LD V0, 1 in the last two bytes of RAM
RunOffRom ==
    [i \in 1..(RAM_SIZE - PROGRAM_START) |->
        CASE i = 1 -> \h1F
          [] i = 2 -> \hFE
          [] i = RAM_SIZE - PROGRAM_START - 1 -> \h60
          [] i = RAM_SIZE - PROGRAM_START -> \h01
          [] OTHER -> 0]

\* JP 0xFFF; and LD V0, 255; JP V0, 0xFFF
JumpRoms == {Words(<<\h1FFF>>), Words(<<\h60FF, \hBFFF>>)}

InitEdge ==
    \E rom \in { EdgeRom(v, nnn, op) :
                    v \in EdgeOffsets, nnn \in EdgeAddrs, op \in EdgeOps }
                    \cup {WrapRom, RunOffRom} \cup JumpRoms :
        Starts(load_program(new, rom), "while", 0)

SpecEdge == InitEdge /\ [][NextQuiet]_vars

----------------------------------------------------------------------------
(* Register arithmetic: one 8xy_ opcode executed on chosen register contents *)

ByteSamples == {0, 1, 100, 128, 200, 255}
FlagSamples == {0, 1, 77}
RegSamples == {0, 3, 14, 15}
AluOps == {4, 5, 6, \hE}

\* LD VF, f; LD Vx, a; LD Vy, b; then the opcode 8xyn
AluRom(x, y, a, b, f, n) ==
    Words(<<\h6F00 + f, \h6000 + 256 * x + a, \h6000 + 256 * y + b,
            \h8000 + 256 * x + 16 * y + n>>)

\* the three loads have run and the 8xyn has been fetched
InitAlu ==
    \E x \in RegSamples, y \in RegSamples, a \in ByteSamples, b \in ByteSamples,
       f \in FlagSamples, n \in AluOps :
        LET f4 == fetch(run(load_program(new, AluRom(x, y, a, b, f, n)), 3))
        IN Starts(f4.vm, "execute", f4.value)

NextAlu == Execute

SpecAlu == InitAlu /\ [][NextAlu]_vars

----------------------------------------------------------------------------
(* Text.  A &str is a string; a text of several lines is the sequence of its *)
(* lines, so str::lines() and the write of a line and its '\n' are not      *)
(* modelled.  All text of the model is ASCII.                               *)

\* the character at position i (from 1), as a string of length 1
Char(s, i) == SubSeq(s, i, i)

\* &s[k..]
Skip(s, k) == SubSeq(s, k + 1, Len(s))

\* str::starts_with, str::ends_with
starts_with(s, p) == Len(s) >= Len(p) /\ SubSeq(s, 1, Len(p)) = p
ends_with(s, p) == Len(s) >= Len(p) /\ SubSeq(s, Len(s) - Len(p) + 1, Len(s)) = p

\* what \s of the regex and str::trim take for white space inside a line
Whitespace == {" ", "\t"}

\* the first position from i on whose character is in cs, Len(s) + 1 if none
RECURSIVE find_from(_, _, _)
find_from(s, i, cs) ==
    IF i > Len(s) THEN Len(s) + 1
    ELSE IF Char(s, i) \in cs THEN i
    ELSE find_from(s, i + 1, cs)

\* str::trim_start_matches, str::trim_end_matches, str::trim_matches for the
\* characters of cs
RECURSIVE trim_start_matches(_, _)
trim_start_matches(s, cs) ==
    IF Len(s) > 0 /\ Char(s, 1) \in cs THEN trim_start_matches(Skip(s, 1), cs)
    ELSE s

RECURSIVE trim_end_matches(_, _)
trim_end_matches(s, cs) ==
    IF Len(s) > 0 /\ Char(s, Len(s)) \in cs
    THEN trim_end_matches(SubSeq(s, 1, Len(s) - 1), cs)
    ELSE s

trim_matches(s, cs) == trim_end_matches(trim_start_matches(s, cs), cs)

\* str::trim
trim(s) == trim_matches(s, Whitespace)

LowerCase == "abcdefghijklmnopqrstuvwxyz"
UpperCase == "ABCDEFGHIJKLMNOPQRSTUVWXYZ"
LowerDigits == "0123456789abcdef"
UpperDigits == "0123456789ABCDEF"

\* the position of character c in alphabet, 0 if it is not there
index_of(c, alphabet) ==
    LET hits == {i \in 1..Len(alphabet) : Char(alphabet, i) = c}
    IN IF hits = {} THEN 0 ELSE CHOOSE i \in hits : TRUE

\* str::to_uppercase
RECURSIVE to_uppercase(_)
to_uppercase(s) ==
    IF Len(s) = 0 THEN ""
    ELSE LET k == index_of(Char(s, 1), LowerCase)
         IN (IF k = 0 THEN Char(s, 1) ELSE Char(UpperCase, k))
                \o to_uppercase(Skip(s, 1))

\* char::to_digit(radix): Option<u32> as a set with at most one element
to_digit(c, radix) ==
    LET digit(lo, up) ==
            LET v == IF lo > 0 THEN lo - 1 ELSE up - 1
            IN IF v >= 0 /\ v < radix THEN {v} ELSE {}
    IN digit(index_of(c, LowerDigits), index_of(c, UpperDigits))

\* the digit loop of u16::from_str_radix: {} on a character that is no digit
\* and on a value above u16::MAX
RECURSIVE accumulate(_, _, _)
accumulate(digits, radix, acc) ==
    IF Len(digits) = 0 THEN {acc}
    ELSE LET next(d) ==
                 IF d = {} THEN {}
                 ELSE LET v == acc * radix + (CHOOSE x \in d : TRUE)
                      IN IF v > 65535 THEN {}
                         ELSE accumulate(Skip(digits, 1), radix, v)
         IN next(to_digit(Char(digits, 1), radix))

\* u16::from_str_radix and str::parse::<u16> (radix 10): Result as a set with
\* at most one element.  A leading '+' is accepted, a '-' is not.
from_str_radix(src, radix) ==
    IF Len(src) = 0 THEN {}
    ELSE IF Len(src) = 1 /\ Char(src, 1) \in {"+", "-"} THEN {}
    ELSE IF Char(src, 1) = "+" THEN accumulate(Skip(src, 1), radix, 0)
    ELSE accumulate(src, radix, 0)

\* format!("{:0width$X}", v): upper-case hexadecimal, zero-padded to width
RECURSIVE hex_digits(_)
hex_digits(v) ==
    IF v < 16 THEN Char(UpperDigits, v + 1)
    ELSE hex_digits(v \div 16) \o Char(UpperDigits, (v % 16) + 1)

RECURSIVE pad_zero(_, _)
pad_zero(s, width) == IF Len(s) >= width THEN s ELSE pad_zero("0" \o s, width)

format_hex(v, width) == pad_zero(hex_digits(v), width)

\* format!("{}", v) of an unsigned integer
RECURSIVE format_dec(_)
format_dec(v) ==
    IF v < 10 THEN Char(UpperDigits, v + 1)
    ELSE format_dec(v \div 10) \o Char(UpperDigits, (v % 10) + 1)

\* a number in binary notation, as the 0b literals of the sources are written
RECURSIVE format_bin(_)
format_bin(v) ==
    IF v < 2 THEN Char(UpperDigits, v + 1)
    ELSE format_bin(v \div 2) \o Char(UpperDigits, (v % 2) + 1)

----------------------------------------------------------------------------
(* The assembler: src/src/assembler.rs, src/src/assembler/statement.rs *)

\* Result<T, assembler::Error>.  Of an Error the model keeps the variant.
Ok(v) == [ok |-> TRUE, value |-> v, error |-> "none"]
Err(e) == [ok |-> FALSE, value |-> <<>>, error |-> e]

\* the `?` operator and Result::and_then: F on the value of an Ok, the Err as it is
AndThen(r, F(_)) == IF r.ok THEN F(r.value) ELSE r

\* Result::or_else: the Ok as it is, F on the error of an Err
OrElse(r, F(_)) == IF r.ok THEN r ELSE F(r.error)

\* a | b on u16
BitOr16(a, b) ==
    LET s[k \in 0..16] ==
            IF k = 0 THEN 0
            ELSE s[k - 1] + (IF Bit(a, k - 1) = 1 \/ Bit(b, k - 1) = 1
                             THEN Pow2(k - 1) ELSE 0)
    IN s[16]

\* the two bytes of a u16, low byte first
split_u16_low_first(val) == <<val % 256, (val \div 256) % 256>>

\* split_u16!: the two bytes of a u16, high byte first
split_u16(val) == <<(val \div 256) % 256, val % 256>>

\* preprocess: of every line the part before the first ';', trimmed; empty
\* lines are dropped
RECURSIVE preprocess(_)
preprocess(lines) ==
    IF Len(lines) = 0 THEN <<>>
    ELSE LET first == Head(lines)
             filter(code) == IF Len(code) = 0 THEN <<>> ELSE <<code>>
         IN filter(trim(SubSeq(first, 1, find_from(first, 1, {";"}) - 1)))
                \o preprocess(Tail(lines))

\* the characters the second alternative of the regex does not match: , and \s
Separators == {","} \cup Whitespace

\* Regex::new(r#""[^"]*"|[^,\s]+"#).find_iter(line), from position i: the
\* matches from left to right, the quoted alternative tried first
RECURSIVE find_iter(_, _)
find_iter(line, i) ==
    IF i > Len(line) THEN <<>>
    ELSE IF Char(line, i) = "\"" /\ find_from(line, i + 1, {"\""}) <= Len(line)
    THEN LET quoted(j) == <<SubSeq(line, i, j)>> \o find_iter(line, j + 1)
         IN quoted(find_from(line, i + 1, {"\""}))
    ELSE IF Char(line, i) \in Separators THEN find_iter(line, i + 1)
    ELSE LET bare(j) == <<SubSeq(line, i, j - 1)>> \o find_iter(line, j)
         IN bare(find_from(line, i, Separators))

\* Statement::new on the lexemes of a line.  The spans, the line number and the
\* line serve the error messages only and are left out.
Statement(lexemes) ==
    [instruction |-> Head(lexemes), arguments |-> Tail(lexemes)]

\* Statement::argument
argument(statement, argument_index) ==
    IF argument_index < Len(statement.arguments)
    THEN Ok(statement.arguments[argument_index + 1])
    ELSE Err("InvalidArgumentIndex")

\* Statement::assert_n_arguments
assert_n_arguments(statement, n) ==
    IF Len(statement.arguments) # n THEN Err("InvalidArgumentCount") ELSE Ok(n)

\* Statement::parse_number
parse_number(statement, argument_index, max_n_bits) ==
    LET max == 65535 \div Pow2(16 - max_n_bits)
        bounded(num) ==
            IF num = {} THEN Err("InvalidArgument")
            ELSE IF (CHOOSE v \in num : TRUE) > max THEN Err("ArgumentOverflow")
            ELSE Ok(CHOOSE v \in num : TRUE)
        F(lexeme) ==
            bounded(IF starts_with(lexeme, "0x")
                    THEN from_str_radix(Skip(lexeme, 2), 16)
                    ELSE IF starts_with(lexeme, "0b")
                    THEN from_str_radix(Skip(lexeme, 2), 2)
                    ELSE from_str_radix(lexeme, 10))
    IN AndThen(argument(statement, argument_index), F)

\* Statement::parse_register
parse_register(statement, argument_index) ==
    LET ok_or(register) ==
            IF register = {} THEN Err("InvalidArgument")
            ELSE Ok(CHOOSE r \in register : TRUE)
        F(lexeme) ==
            IF Len(lexeme) = 2 /\ starts_with(lexeme, "V")
            THEN ok_or(to_digit(Char(lexeme, 2), 16))
            ELSE Err("InvalidArgument")
    IN AndThen(argument(statement, argument_index), F)

\* Statement::parse_only_two_registers: the pair <<x, y>>
parse_only_two_registers(statement) ==
    LET F(n) ==
            LET G(x) ==
                    LET H(y) == Ok(<<x, y>>)
                    IN AndThen(parse_register(statement, 1), H)
            IN AndThen(parse_register(statement, 0), G)
    IN AndThen(assert_n_arguments(statement, 2), F)

\* Statement::parse_label.  symbol_table is a function from the labels to
\* their addresses; the sources of the model keep x + 0x200 within a u16.
parse_label(statement, argument_index, symbol_table) ==
    LET F(lexeme) ==
            IF lexeme \in DOMAIN symbol_table
            THEN Ok(symbol_table[lexeme] + PROGRAM_START)
            ELSE Err("InvalidArgument")
    IN AndThen(argument(statement, argument_index), F)

\* Statement::parse_addr_or_label
parse_addr_or_label(statement, argument_index, symbol_table) ==
    OrElse(parse_number(statement, argument_index, 12),
           LAMBDA e : parse_label(statement, argument_index, symbol_table))

\* Statement::parse_string
parse_string(statement, argument_index) ==
    LET F(lexeme) == Ok(trim_matches(lexeme, {"\""}))
    IN AndThen(argument(statement, argument_index), F)

----------------------------------------------------------------------------
(* Code generation for instructions: src/src/assembler/instructions.rs *)

\* the opcode `base | (x << 8) | (y << 4) | low` as two bytes
encode(base, x, y, low) ==
    split_u16(BitOr16(BitOr16(BitOr16(base, x * 256), y * 16), low))

cls(statement) ==
    AndThen(assert_n_arguments(statement, 0), LAMBDA n : Ok(split_u16(\h00E0)))

ret(statement) ==
    AndThen(assert_n_arguments(statement, 0), LAMBDA n : Ok(split_u16(\h00EE)))

sys(statement, symbol_table) ==
    AndThen(assert_n_arguments(statement, 1), LAMBDA n :
    AndThen(parse_addr_or_label(statement, 0, symbol_table), LAMBDA addr :
        Ok(split_u16(BitOr16(\h0000, addr)))))

jp(statement, symbol_table) ==
    CASE Len(statement.arguments) = 1 ->
            AndThen(parse_addr_or_label(statement, 0, symbol_table), LAMBDA addr :
                Ok(split_u16(BitOr16(\h1000, addr))))
      [] Len(statement.arguments) = 2 ->
            AndThen(parse_register(statement, 0), LAMBDA register :
            AndThen(parse_addr_or_label(statement, 1, symbol_table), LAMBDA address :
                IF register # 0 THEN Err("InvalidArgument")
                ELSE Ok(split_u16(BitOr16(\hB000, address)))))
      [] OTHER -> Err("InvalidArgumentCount")

call(statement, symbol_table) ==
    AndThen(assert_n_arguments(statement, 1), LAMBDA n :
    AndThen(parse_addr_or_label(statement, 0, symbol_table), LAMBDA addr :
        Ok(split_u16(BitOr16(\h2000, addr)))))

\* `parse_number(1, 8).map(byte form).or_else(|_| register form)` of se, sne
\* and add: any Err of parse_number, ArgumentOverflow too, leads to or_else
byte_or_register(statement, x, byte_base, register_base) ==
    OrElse(AndThen(parse_number(statement, 1, 8), LAMBDA byte :
               Ok(encode(byte_base, x, 0, byte))),
           LAMBDA e : AndThen(parse_register(statement, 1), LAMBDA y :
               Ok(encode(register_base, x, y, 0))))

se(statement) ==
    AndThen(assert_n_arguments(statement, 2), LAMBDA n :
    AndThen(parse_register(statement, 0), LAMBDA x :
        byte_or_register(statement, x, \h3000, \h5000)))

sne(statement) ==
    AndThen(assert_n_arguments(statement, 2), LAMBDA n :
    AndThen(parse_register(statement, 0), LAMBDA x :
        byte_or_register(statement, x, \h4000, \h9000)))

\* the arms `Ok(split_u16!(base | (y? << 8)))` of ld
ld_from_register(statement, base) ==
    AndThen(parse_register(statement, 1), LAMBDA y : Ok(encode(base, y, 0, 0)))

ld(statement, symbol_table) ==
    AndThen(assert_n_arguments(statement, 2), LAMBDA n :
        LET address == parse_addr_or_label(statement, 1, symbol_table)
            arg0    == statement.arguments[1]
            arg1    == statement.arguments[2]
        IN CASE arg0 = "I"   -> AndThen(address, LAMBDA a :
                                    Ok(split_u16(BitOr16(\hA000, a))))
             [] arg0 = "DT"  -> ld_from_register(statement, \hF015)
             [] arg0 = "ST"  -> ld_from_register(statement, \hF018)
             [] arg0 = "F"   -> ld_from_register(statement, \hF029)
             [] arg0 = "B"   -> ld_from_register(statement, \hF033)
             [] arg0 = "[I]" -> ld_from_register(statement, \hF055)
             [] OTHER ->
                AndThen(parse_register(statement, 0), LAMBDA x :
                    CASE arg1 = "DT"  -> Ok(encode(\hF007, x, 0, 0))
                      [] arg1 = "K"   -> Ok(encode(\hF00A, x, 0, 0))
                      [] arg1 = "[I]" -> Ok(encode(\hF065, x, 0, 0))
                      [] OTHER -> byte_or_register(statement, x, \h6000, \h8000)))

add(statement) ==
    AndThen(assert_n_arguments(statement, 2), LAMBDA n :
        IF statement.arguments[1] = "I"
        THEN AndThen(parse_register(statement, 1), LAMBDA x :
                 Ok(encode(\hF01E, x, 0, 0)))
        ELSE AndThen(parse_register(statement, 0), LAMBDA x :
                 byte_or_register(statement, x, \h7000, \h8004)))

\* sub, subn, or, and, xor, shr, shl: `base | (x << 8) | (y << 4)`
two_registers(statement, base) ==
    AndThen(parse_only_two_registers(statement), LAMBDA xy :
        Ok(encode(base, xy[1], xy[2], 0)))

sub(statement) == two_registers(statement, \h8005)
subn(statement) == two_registers(statement, \h8007)
or(statement) == two_registers(statement, \h8001)
and(statement) == two_registers(statement, \h8002)
xor(statement) == two_registers(statement, \h8003)
shr(statement) == two_registers(statement, \h8006)
shl(statement) == two_registers(statement, \h800E)

rnd(statement) ==
    AndThen(assert_n_arguments(statement, 2), LAMBDA n :
    AndThen(parse_register(statement, 0), LAMBDA x :
    AndThen(parse_number(statement, 1, 8), LAMBDA byte :
        Ok(encode(\hC000, x, 0, byte)))))

drw(statement) ==
    AndThen(assert_n_arguments(statement, 3), LAMBDA n :
    AndThen(parse_register(statement, 0), LAMBDA x :
    AndThen(parse_register(statement, 1), LAMBDA y :
    AndThen(parse_number(statement, 2, 4), LAMBDA nibble :
        Ok(encode(\hD000, x, y, nibble))))))

skp(statement) ==
    AndThen(assert_n_arguments(statement, 1), LAMBDA n :
    AndThen(parse_register(statement, 0), LAMBDA x :
        Ok(encode(\hE09E, x, 0, 0))))

sknp(statement) ==
    AndThen(assert_n_arguments(statement, 1), LAMBDA n :
    AndThen(parse_register(statement, 0), LAMBDA x :
        Ok(encode(\hE0A1, x, 0, 0))))

----------------------------------------------------------------------------
(* Directives and the two passes: src/src/assembler/directives.rs,          *)
(* src/src/assembler.rs.  A process that dies (a panic, the stack exhausted  *)
(* by recursion) is an Err whose variant is in Fatal; it is handed up as it  *)
(* is, since no caller lives to wrap it.                                     *)

BYTES_PER_INSTRUCTION == 2

\* the nested assemble_from_file calls the stack of the process has room for
MaxIncludeDepth == 3

Fatal == {"panic", "stack overflow"}

\* the printable ASCII characters from the space (0x20) to the underscore
\* (0x5F) and from a (0x61) to the tilde (0x7E); the text of the model has no
\* other character
AsciiLow == " !\"#$%&'()*+,-./0123456789:;<=>?@ABCDEFGHIJKLMNOPQRSTUVWXYZ[\\]^_"
AsciiHigh == "abcdefghijklmnopqrstuvwxyz{|}~"

\* the byte of an ASCII character
ascii_code(c) ==
    IF index_of(c, AsciiLow) > 0 THEN index_of(c, AsciiLow) + 31
    ELSE index_of(c, AsciiHigh) + 96

\* String::into_bytes
into_bytes(s) == [i \in 1..Len(s) |-> ascii_code(Char(s, i))]

byte(statement) ==
    AndThen(assert_n_arguments(statement, 1), LAMBDA n :
    AndThen(parse_number(statement, 0, 8), LAMBDA v : Ok(<<v % 256>>)))

word(statement) ==
    AndThen(assert_n_arguments(statement, 1), LAMBDA n :
    AndThen(parse_number(statement, 0, 16), LAMBDA v : Ok(split_u16(v))))

text(statement) ==
    AndThen(parse_string(statement, 0), LAMBDA s : Ok(into_bytes(s)))

fill(statement) ==
    AndThen(assert_n_arguments(statement, 2), LAMBDA c :
    AndThen(parse_number(statement, 0, 16), LAMBDA n :
    AndThen(parse_number(statement, 1, 8), LAMBDA v :
        Ok([i \in 1..n |-> v % 256]))))

space(statement) ==
    AndThen(assert_n_arguments(statement, 1), LAMBDA c :
    AndThen(parse_number(statement, 0, 16), LAMBDA n : Ok([i \in 1..n |-> 0])))

\* warn: the warning is printed, no byte is emitted
warn(statement) == Ok(<<>>)

_error(statement) == Err("UserError")

RECURSIVE assemble_from_file(_, _, _)
RECURSIVE assemble_in(_, _, _)
RECURSIVE parse_statement(_, _, _, _)

\* _include.  fs is the file system, depth the room left on the stack.
_include(statement, fs, depth) ==
    LET map_err(r) == IF r.ok \/ r.error \in Fatal THEN r ELSE Err("IncludeError")
    IN AndThen(parse_string(statement, 0), LAMBDA path :
           map_err(assemble_from_file(fs, path, depth)))

parse_statement(statement, symbol_table, fs, depth) ==
    LET match(name) ==
       CASE name = "CLS"  -> cls(statement)
         [] name = "RET"  -> ret(statement)
         [] name = "SYS"  -> sys(statement, symbol_table)
         [] name = "JP"   -> jp(statement, symbol_table)
         [] name = "CALL" -> call(statement, symbol_table)
         [] name = "SE"   -> se(statement)
         [] name = "SNE"  -> sne(statement)
         [] name = "LD"   -> ld(statement, symbol_table)
         [] name = "ADD"  -> add(statement)
         [] name = "OR"   -> or(statement)
         [] name = "AND"  -> and(statement)
         [] name = "XOR"  -> xor(statement)
         [] name = "SUB"  -> sub(statement)
         [] name = "SHR"  -> shr(statement)
         [] name = "SUBN" -> subn(statement)
         [] name = "SHL"  -> shl(statement)
         [] name = "RND"  -> rnd(statement)
         [] name = "DRW"  -> drw(statement)
         [] name = "SKP"  -> skp(statement)
         [] name = "SKNP" -> sknp(statement)
         [] name \in {".BYTE", ".DB"}    -> byte(statement)
         [] name \in {".WORD", ".DW"}    -> word(statement)
         [] name \in {".TEXT", ".ASCII"} -> text(statement)
         [] name = ".FILL"    -> fill(statement)
         [] name = ".SPACE"   -> space(statement)
         [] name = ".INCLUDE" -> _include(statement, fs, depth)
         [] name = ".WARN"    -> warn(statement)
         [] name = ".ERROR"   -> _error(statement)
         [] OTHER -> Err("UnknownInstruction")
    IN match(to_uppercase(statement.instruction))

\* HashMap::new()
EmptyTable == [label \in {} |-> 0]

\* a first pass that counts two bytes for a directive, as for an instruction
RECURSIVE first_pass_fixed_width(_, _, _, _, _, _, _)
first_pass_fixed_width(lines, i, labels, unresolved, address, fs, depth) ==
    IF i > Len(lines) THEN Ok([symbol_table |-> labels, unresolved |-> unresolved])
    ELSE IF ends_with(lines[i], ":")
    THEN first_pass_fixed_width(lines, i + 1,
             (trim_end_matches(lines[i], {":"}) :> address) @@ labels,
             unresolved, address, fs, depth)
    ELSE LET collect(lexemes) ==
                 IF Len(lexemes) = 0 THEN Err("panic")
                 ELSE first_pass_fixed_width(lines, i + 1, labels,
                          Append(unresolved, Statement(lexemes)),
                          address + BYTES_PER_INSTRUCTION, fs, depth)
         IN collect(find_iter(lines[i], 1))

\* first_pass from line i on (the body of its `for` loop).  A line without a
\* lexeme makes lexemes[0] panic.  The sources of the model emit fewer than
\* 65536 bytes, so `address` stays within a u16.
RECURSIVE first_pass(_, _, _, _, _, _, _)
first_pass(lines, i, labels, unresolved, address, fs, depth) ==
    IF i > Len(lines) THEN Ok([symbol_table |-> labels, unresolved |-> unresolved])
    ELSE IF ends_with(lines[i], ":")
    THEN first_pass(lines, i + 1,
             (trim_end_matches(lines[i], {":"}) :> address) @@ labels,
             unresolved, address, fs, depth)
    ELSE LET collect(lexemes) ==
                 IF Len(lexemes) = 0 THEN Err("panic")
                 ELSE IF starts_with(lines[i], ".")
                 THEN AndThen(parse_statement(Statement(lexemes), labels, fs, depth),
                          LAMBDA bytes :
                              first_pass(lines, i + 1, labels,
                                  Append(unresolved, Statement(lexemes)),
                                  address + Len(bytes), fs, depth))
                 ELSE first_pass(lines, i + 1, labels,
                          Append(unresolved, Statement(lexemes)),
                          address + BYTES_PER_INSTRUCTION, fs, depth)
         IN collect(find_iter(lines[i], 1))

\* second_pass from statement i on, bytecode being the bytes emitted so far
RECURSIVE second_pass(_, _, _, _, _, _)
second_pass(symbol_table, unresolved, i, bytecode, fs, depth) ==
    IF i > Len(unresolved) THEN Ok(bytecode)
    ELSE AndThen(parse_statement(unresolved[i], symbol_table, fs, depth),
             LAMBDA bytes :
                 second_pass(symbol_table, unresolved, i + 1, bytecode \o bytes,
                             fs, depth))

\* assemble, given the file system its .include directives read and the room
\* left on the stack
assemble_in(lines, fs, depth) ==
    AndThen(first_pass(preprocess(lines), 1, EmptyTable, <<>>, 0, fs, depth),
        LAMBDA p : second_pass(p.symbol_table, p.unresolved, 1, <<>>, fs, depth))

\* assemble_from_file.  A file that is not in fs cannot be read.  With no room
\* left on the stack the call overflows it and the process dies.
assemble_from_file(fs, path, depth) ==
    IF depth = 0 THEN Err("stack overflow")
    ELSE IF path \notin DOMAIN fs THEN Err("ReadError")
    ELSE assemble_in(fs[path], fs, depth - 1)

\* the file system of a run that includes nothing
NoFiles == [path \in {} |-> <<>>]

\* assemble(source) of a source that includes no file
assemble(lines) == assemble_in(lines, NoFiles, MaxIncludeDepth)

----------------------------------------------------------------------------
(* The disassembler: src/src/bin/disassembler.rs *)

\* format!("V{:X}", x)
format_register(x) == "V" \o format_hex(x, 1)

\* decode_instruction
decode_instruction(op) ==
    LET n0  == op \div 4096
        nnn == op % 4096
        kk  == op % 256
        x   == (op \div 256) % 16
        y   == (op \div 16) % 16
        n   == op % 16
        vx  == format_register(x)
        vy  == format_register(y)
        addr == "0x" \o format_hex(nnn, 3)
        imm  == "0x" \o format_hex(kk, 2)
    IN CASE op = \h00E0 -> "CLS"
         [] op = \h00EE -> "RET"
         [] n0 = 0 /\ op \notin {\h00E0, \h00EE} -> "SYS " \o addr
         [] n0 = 1 -> "JP " \o addr
         [] n0 = 2 -> "CALL " \o addr
         [] n0 = 3 -> "SE " \o vx \o ", " \o imm
         [] n0 = 4 -> "SNE " \o vx \o ", " \o imm
         [] n0 = 5 /\ n = 0 -> "SE " \o vx \o ", " \o vy
         [] n0 = 6 -> "LD " \o vx \o ", " \o imm
         [] n0 = 7 -> "ADD " \o vx \o ", " \o imm
         [] n0 = 8 /\ n = 0 -> "LD " \o vx \o ", " \o vy
         [] n0 = 8 /\ n = 1 -> "OR " \o vx \o ", " \o vy
         [] n0 = 8 /\ n = 2 -> "AND " \o vx \o ", " \o vy
         [] n0 = 8 /\ n = 3 -> "XOR " \o vx \o ", " \o vy
         [] n0 = 8 /\ n = 4 -> "ADD " \o vx \o ", " \o vy
         [] n0 = 8 /\ n = 5 -> "SUB " \o vx \o ", " \o vy
         [] n0 = 8 /\ n = 6 -> "SHR " \o vx
         [] n0 = 8 /\ n = 7 -> "SUBN " \o vx \o ", " \o vy
         [] n0 = 8 /\ n = \hE -> "SHL " \o vx
         [] n0 = 9 /\ n = 0 -> "SNE " \o vx \o ", " \o vy
         [] n0 = \hA -> "LD I, " \o addr
         [] n0 = \hB -> "JP V0, " \o addr
         [] n0 = \hC -> "RND " \o vx \o ", " \o imm
         [] n0 = \hD -> "DRW " \o vx \o ", " \o vy \o ", " \o format_dec(n)
         [] n0 = \hE /\ kk = \h9E -> "SKP " \o vx
         [] n0 = \hE /\ kk = \hA1 -> "SKNP " \o vx
         [] n0 = \hF /\ kk = \h07 -> "LD " \o vx \o ", DT"
         [] n0 = \hF /\ kk = \h0A -> "LD " \o vx \o ", K"
         [] n0 = \hF /\ kk = \h15 -> "LD DT, " \o vx
         [] n0 = \hF /\ kk = \h18 -> "LD ST, " \o vx
         [] n0 = \hF /\ kk = \h1E -> "ADD I, " \o vx
         [] n0 = \hF /\ kk = \h29 -> "LD F, " \o vx
         [] n0 = \hF /\ kk = \h33 -> "LD B, " \o vx
         [] n0 = \hF /\ kk = \h55 -> "LD [I], " \o vx
         [] n0 = \hF /\ kk = \h65 -> "LD " \o vx \o ", [I]"
         [] OTHER -> ".word 0x" \o format_hex(op, 4)

\* disassemble from byte i (from 1) on: the lines of the result
RECURSIVE disassemble_from(_, _)
disassemble_from(bytecode, i) ==
    IF i > Len(bytecode) THEN <<>>
    ELSE IF i + 1 > Len(bytecode)
    THEN <<".byte 0x" \o format_hex(bytecode[i], 2)>>
    ELSE <<decode_instruction(bytecode[i] * 256 + bytecode[i + 1])>>
             \o disassemble_from(bytecode, i + 2)

\* disassemble
disassemble(bytecode) == disassemble_from(bytecode, 1)

----------------------------------------------------------------------------
(* Sources given to the assembler *)

\* the rows of the instruction encoding table: mnemonic, operand form, opcode
\* with its operand fields zero
InstructionTable ==
    { <<"CLS", "", \h00E0>>, <<"RET", "", \h00EE>>,
      <<"SYS", "addr", \h0000>>, <<"JP", "addr", \h1000>>,
      <<"CALL", "addr", \h2000>>,
      <<"SE", "Vx, kk", \h3000>>, <<"SNE", "Vx, kk", \h4000>>,
      <<"SE", "Vx, Vy", \h5000>>, <<"LD", "Vx, kk", \h6000>>,
      <<"ADD", "Vx, kk", \h7000>>, <<"LD", "Vx, Vy", \h8000>>,
      <<"OR", "Vx, Vy", \h8001>>, <<"AND", "Vx, Vy", \h8002>>,
      <<"XOR", "Vx, Vy", \h8003>>, <<"ADD", "Vx, Vy", \h8004>>,
      <<"SUB", "Vx, Vy", \h8005>>, <<"SHR", "Vx, Vy", \h8006>>,
      <<"SUBN", "Vx, Vy", \h8007>>, <<"SHL", "Vx, Vy", \h800E>>,
      <<"SNE", "Vx, Vy", \h9000>>,
      <<"LD", "I, addr", \hA000>>, <<"JP", "V0, addr", \hB000>>,
      <<"RND", "Vx, kk", \hC000>>, <<"DRW", "Vx, Vy, n", \hD000>>,
      <<"SKP", "Vx", \hE09E>>, <<"SKNP", "Vx", \hE0A1>>,
      <<"LD", "Vx, DT", \hF007>>, <<"LD", "Vx, K", \hF00A>>,
      <<"LD", "DT, Vx", \hF015>>, <<"LD", "ST, Vx", \hF018>>,
      <<"ADD", "I, Vx", \hF01E>>, <<"LD", "F, Vx", \hF029>>,
      <<"LD", "B, Vx", \hF033>>, <<"LD", "[I], Vx", \hF055>>,
      <<"LD", "Vx, [I]", \hF065>> }

\* the operand values the sources are written with
RegisterXSamples == {0, 3, 10, 15}
RegisterYSamples == {0, 7, 15}
ByteOperandSamples == {0, 42, 255}
NibbleOperandSamples == {0, 5, 15}
AddressOperandSamples == {0, 512, 4095}
LiteralStyles == {"dec", "hex", "bin"}
MnemonicStyles == {"upper", "lower", "mixed"}

\* a number written as a decimal, 0x or 0b literal
literal(v, style) ==
    CASE style = "dec" -> format_dec(v)
      [] style = "hex" -> "0x" \o format_hex(v, 1)
      [] style = "bin" -> "0b" \o format_bin(v)

RECURSIVE to_lowercase(_)
to_lowercase(s) ==
    IF Len(s) = 0 THEN ""
    ELSE LET k == index_of(Char(s, 1), UpperCase)
         IN (IF k = 0 THEN Char(s, 1) ELSE Char(LowerCase, k))
                \o to_lowercase(Skip(s, 1))

\* a mnemonic in upper case, in lower case, or with its first letter only in
\* upper case
mnemonic_text(m, style) ==
    CASE style = "upper" -> m
      [] style = "lower" -> to_lowercase(m)
      [] style = "mixed" -> Char(m, 1) \o to_lowercase(Skip(m, 1))

\* the operand text of a form for the values x, y, kk, n, nnn
operand_text(form, x, y, kk, n, nnn, style) ==
    LET vx == format_register(x)
        vy == format_register(y)
    IN CASE form = ""          -> ""
         [] form = "addr"      -> literal(nnn, style)
         [] form = "Vx, kk"    -> vx \o ", " \o literal(kk, style)
         [] form = "Vx, Vy"    -> vx \o ", " \o vy
         [] form = "I, addr"   -> "I, " \o literal(nnn, style)
         [] form = "V0, addr"  -> "V0, " \o literal(nnn, style)
         [] form = "Vx, Vy, n" -> vx \o ", " \o vy \o ", " \o literal(n, style)
         [] form = "Vx"        -> vx
         [] form = "Vx, DT"    -> vx \o ", DT"
         [] form = "Vx, K"     -> vx \o ", K"
         [] form = "DT, Vx"    -> "DT, " \o vx
         [] form = "ST, Vx"    -> "ST, " \o vx
         [] form = "I, Vx"     -> "I, " \o vx
         [] form = "F, Vx"     -> "F, " \o vx
         [] form = "B, Vx"     -> "B, " \o vx
         [] form = "[I], Vx"   -> "[I], " \o vx
         [] form = "Vx, [I]"   -> vx \o ", [I]"

\* the opcode the table gives a form for the values x, y, kk, n, nnn
table_opcode(form, base, x, y, kk, n, nnn) ==
    CASE form = "" -> base
      [] form \in {"addr", "I, addr", "V0, addr"} -> base + nnn
      [] form = "Vx, kk" -> base + 256 * x + kk
      [] form = "Vx, Vy" -> base + 256 * x + 16 * y
      [] form = "Vx, Vy, n" -> base + 256 * x + 16 * y + n
      [] OTHER -> base + 256 * x

\* the values a form is written with: one value for an operand it does not have
XsOf(form) == IF form \in {"", "addr", "I, addr", "V0, addr"} THEN {0}
              ELSE RegisterXSamples
YsOf(form) == IF form \in {"Vx, Vy", "Vx, Vy, n"} THEN RegisterYSamples ELSE {0}
KksOf(form) == IF form = "Vx, kk" THEN ByteOperandSamples ELSE {0}
NsOf(form) == IF form = "Vx, Vy, n" THEN NibbleOperandSamples ELSE {0}
NnnsOf(form) == IF form \in {"addr", "I, addr", "V0, addr"}
                THEN AddressOperandSamples ELSE {0}
StylesOf(form) == IF form \in {"addr", "I, addr", "V0, addr", "Vx, kk", "Vx, Vy, n"}
                  THEN LiteralStyles ELSE {"dec"}

\* one instruction line for every row of the table and every sample of its
\* operands, with the opcode the table gives it
InstructionCases ==
    UNION { { [ line |-> IF row[2] = "" THEN mnemonic_text(row[1], ms)
                         ELSE mnemonic_text(row[1], ms) \o " "
                                \o operand_text(row[2], x, y, kk, n, nnn, ls),
                mnemonic |-> row[1],
                opcode |-> table_opcode(row[2], row[3], x, y, kk, n, nnn) ] :
                x \in XsOf(row[2]), y \in YsOf(row[2]), kk \in KksOf(row[2]),
                n \in NsOf(row[2]), nnn \in NnnsOf(row[2]),
                ls \in StylesOf(row[2]), ms \in MnemonicStyles } :
            row \in InstructionTable }

InstructionSources == { <<c.line>> : c \in InstructionCases }

\* sources with data directives, comments, blank lines and labels
DirectiveSources ==
    { <<".byte 0x01", ".word 0xCAFE", ".text \"hi\"">>,
      <<"LD V0, 0x2A", "LD V1, V0">>,
      <<"start:", "JP start">>,
      <<".byte 7">>,
      <<".db 255", ".dw 0x8126">>,
      <<".fill 3, 0xAB", "CLS">>,
      <<".space 4", "RET", ".byte 0x12">>,
      <<".text \"Hi, there\"">>,
      <<".ascii \"A\"", ".warn \"odd\"">>,
      <<"; a comment", "", "  LD V0, 5 ; set V0", "loop:", "\tADD V0, 1",
        "SE V0, 10", "JP loop", "done:", "CLS">>,
      <<".word 0x5121", ".word 0xE100", ".word 0xF1FF", ".word 0x8128">>,
      <<"SHR V1, V2", "SHL V3, V4">> }

\* one line for every mnemonic and directive with a field of b bits, written
\* with a literal of value 2^b, 2^b + 1, u16::MAX, or 2^16
OverflowLines ==
    UNION { { "SE V1, " \o v, "SNE V1, " \o v, "LD V1, " \o v, "ADD V1, " \o v,
              "RND V1, " \o v, ".byte " \o v, ".fill 2, " \o v } :
            v \in {"256", "0x100", "0b100000000", "257", "65535", "65536"} }
    \cup UNION { { "JP " \o v, "JP V0, " \o v, "CALL " \o v, "SYS " \o v,
                   "LD I, " \o v } :
                 v \in {"4096", "0x1000", "4097", "65535", "65536"} }
    \cup { "DRW V1, V2, " \o v : v \in {"16", "0x10", "17", "65535", "65536"} }

\* the overflowing line alone, and after an instruction that is in order
OverflowSources ==
    { <<l>> : l \in OverflowLines } \cup { <<"CLS", l>> : l \in OverflowLines }

\* directives of several widths, to stand before a label
WidthDirectives ==
    { ".space 5", ".space 24", ".fill 3, 7", ".text \"abc\"", ".byte 1",
      ".word 2", ".warn \"w\"", "CLS" }

\* the instructions that take a label
LabelReferences == { "JP target", "CALL target", "SYS target", "LD I, target",
                     "JP V0, target" }

\* a reference before the definition of its label (forward), after it
\* (backward), and both, with a directive of some width before the label
LabelSources ==
    UNION { { <<ref, d, "target:", "RET">>,
              <<d, "target:", "RET", ref>>,
              <<ref, d, "target:", d, ref>>,
              <<d, ref, "first:", "JP first", d, "target:", ".byte 9", ref>> } :
            d \in WidthDirectives, ref \in LabelReferences }

\* sources with a line that is not empty and holds no lexeme
TokenlessSources ==
    { <<",">>, <<", ,">>, <<"CLS", ",,", "RET">>, <<"start:", "JP start", ",\t,">> }

\* the file systems of the include runs: path -> lines
File(path, lines) == [p \in {path} |-> lines]

\* files that include themselves, directly or through other files
CyclicFileSystems ==
    { File("a.asm", <<"CLS", ".include \"a.asm\"">>),
      File("a.asm", <<".include \"b.asm\"">>)
          @@ File("b.asm", <<"RET", ".include \"a.asm\"">>),
      File("a.asm", <<".include \"b.asm\"">>)
          @@ File("b.asm", <<".include \"c.asm\"">>)
          @@ File("c.asm", <<".include \"a.asm\"", "CLS">>) }

\* files whose includes end: a chain, a file included twice, a missing file,
\* a file with an error
AcyclicFileSystems ==
    { File("a.asm", <<"CLS", ".include \"b.asm\"", "RET">>)
          @@ File("b.asm", <<".byte 1", ".byte 2">>),
      File("a.asm", <<".include \"b.asm\"", ".include \"b.asm\"">>)
          @@ File("b.asm", <<"LD V0, 1">>),
      File("a.asm", <<".include \"missing.asm\"">>),
      File("a.asm", <<".include \"b.asm\"">>)
          @@ File("b.asm", <<"FOO">>) }

\* the inputs of the assembler runs: a source and the file system it is
\* assembled in
AssemblerInputs ==
    { [source |-> s, files |-> NoFiles] :
        s \in InstructionSources \cup DirectiveSources \cup OverflowSources
                \cup LabelSources \cup TokenlessSources }
    \cup { [source |-> fs["a.asm"], files |-> fs] :
             fs \in CyclicFileSystems \cup AcyclicFileSystems }

----------------------------------------------------------------------------
(* The assembler and the disassembler applied: assemble(source), then       *)
(* disassemble of its bytes, then assemble of the disassembly               *)

\* the interpreter does not run
VmIdle == VmAt(new, "none", 0)

InitAsm ==
    /\ VmIdle
    /\ \E input \in AssemblerInputs :
         /\ source = input.source
         /\ files = input.files
    /\ tool_loc = "assemble"
    /\ assembled = NoResult
    /\ listing = <<>>
    /\ reassembled = NoResult
    /\ argv = NoArgs
    /\ exit_code = {}
    /\ output_file = {}

\* assemble(source); an Err ends the run, a dead process too
Assemble ==
    /\ tool_loc = "assemble"
    /\ assembled' = assemble_in(source, files, MaxIncludeDepth)
    /\ tool_loc' = IF assembled'.ok THEN "disassemble"
                   ELSE IF assembled'.error \in Fatal THEN "aborted"
                   ELSE "failed"
    /\ UNCHANGED <<vmvars, volume, loc, opcode, event, polled, keyboard, source,
                   files, listing, reassembled, argv, exit_code, output_file>>

\* disassemble(bytecode)
Disassemble ==
    /\ tool_loc = "disassemble"
    /\ listing' = disassemble(assembled.value)
    /\ tool_loc' = "reassemble"
    /\ UNCHANGED <<vmvars, volume, loc, opcode, event, polled, keyboard, source,
                   files, assembled, reassembled, argv, exit_code, output_file>>

\* assemble(the disassembly)
Reassemble ==
    /\ tool_loc = "reassemble"
    /\ reassembled' = assemble_in(listing, files, MaxIncludeDepth)
    /\ tool_loc' = "done"
    /\ UNCHANGED <<vmvars, volume, loc, opcode, event, polled, keyboard, source,
                   files, assembled, listing, argv, exit_code, output_file>>

NextAsm == Assemble \/ Disassemble \/ Reassemble

SpecAsm == InitAsm /\ [][NextAsm]_vars

----------------------------------------------------------------------------
(* The commands: src/src/bin/assembler.rs, src/src/bin/disassembler.rs.     *)
(* argv.argc is args.len(), the program name included; argv.writable tells  *)
(* whether fs::write to the output path succeeds; exit_code holds the exit  *)
(* status once the process has ended.                                       *)

\* the largest args.len() of the runs
MaxArgc == 4

\* the paths given as <input.asm> and <input.ch8>
AsmPath == "a.asm"
RomPath == "rom.ch8"

\* the exit status of a process that dies: 101 after a panic, 134 after the
\* abort that follows a stack overflow
died(error) == IF error = "panic" THEN {101} ELSE {134}

\* the input files of the assembler runs; none in the last
AssemblerFiles ==
    CyclicFileSystems \cup AcyclicFileSystems
    \cup { File(AsmPath, s) : s \in DirectiveSources }
    \cup { File(AsmPath, <<"LD V0, 256">>), File(AsmPath, <<",">>), NoFiles }

\* the input files of the disassembler runs: bytes; none in the last
DisassemblerFiles ==
    { File(RomPath, b) :
        b \in { <<>>, <<\h00, \hE0>>, <<\h80, \h16, \h12, \h00>>,
                <<\h60, \h05, \hFF>>, <<\hF1, \hFF, \h51, \h21>> } }
    \cup { NoFiles }

InitCli ==
    /\ VmIdle
    /\ argv \in [command : {"assembler", "disassembler"}, argc : 1..MaxArgc,
                 writable : BOOLEAN]
    /\ files \in IF argv.command = "assembler" THEN AssemblerFiles
                 ELSE DisassemblerFiles
    /\ tool_loc = "main"
    /\ source = <<>>
    /\ assembled = NoResult
    /\ listing = <<>>
    /\ reassembled = NoResult
    /\ exit_code = {}
    /\ output_file = {}

\* main of the assembler command
AssemblerMain ==
    LET finish(bytecode) ==
            /\ assembled' = bytecode
            /\ exit_code' = IF ~bytecode.ok
                            THEN IF bytecode.error \in Fatal
                                 THEN died(bytecode.error) ELSE {2}
                            ELSE IF ~argv.writable THEN {3} ELSE {0}
            /\ output_file' = IF bytecode.ok /\ argv.writable
                              THEN {bytecode.value} ELSE {}
    IN /\ tool_loc = "main"
       /\ argv.command = "assembler"
       /\ IF argv.argc # 3
          THEN /\ exit_code' = {1}
               /\ UNCHANGED <<assembled, output_file>>
          ELSE finish(assemble_from_file(files, AsmPath, MaxIncludeDepth))
       /\ tool_loc' = "exited"
       /\ UNCHANGED <<vmvars, volume, loc, opcode, event, polled, keyboard,
                      source, files, listing, reassembled, argv>>

\* main of the disassembler command.  `return` from main ends the process
\* with status 0.
DisassemblerMain ==
    /\ tool_loc = "main"
    /\ argv.command = "disassembler"
    /\ IF argv.argc # 3
       THEN /\ exit_code' = {0}
            /\ UNCHANGED <<listing, output_file>>
       ELSE IF RomPath \notin DOMAIN files
       THEN /\ exit_code' = {1}
            /\ UNCHANGED <<listing, output_file>>
       ELSE /\ listing' = disassemble(files[RomPath])
            /\ exit_code' = IF argv.writable THEN {0} ELSE {2}
            /\ output_file' = IF argv.writable THEN {listing'} ELSE {}
    /\ tool_loc' = "exited"
    /\ UNCHANGED <<vmvars, volume, loc, opcode, event, polled, keyboard,
                   source, files, assembled, reassembled, argv>>

NextCli == AssemblerMain \/ DisassemblerMain

SpecCli == InitCli /\ [][NextCli]_vars

----------------------------------------------------------------------------
(* The macro preprocessor: preprocess of src/assembler/src/assembler.rs.    *)
(* The source is the sequence of its lines; the text the function builds    *)
(* with join("\n") and hands to its regexes is one string.                  *)

\* what \s of a regex takes in a text of several lines
TextSpace == Whitespace \cup {"\n"}

\* what \w of a regex takes
WordCharacters == LowerCase \o UpperCase \o "0123456789_"
WordSet == { Char(WordCharacters, i) : i \in 1..Len(WordCharacters) }

Least(S) == CHOOSE m \in S : \A n \in S : m <= n
Greatest(S) == CHOOSE m \in S : \A n \in S : m >= n

\* the first position from i on where pat stands in s, Len(s) + 1 if none
find_str(s, i, pat) ==
    Least({ j \in i..(Len(s) + 1) :
              \/ j = Len(s) + 1
              \/ /\ j + Len(pat) - 1 <= Len(s)
                 /\ SubSeq(s, j, j + Len(pat) - 1) = pat })

\* the first position from i on whose character is not in cs, Len(s) + 1 if none
run_end(s, i, cs) ==
    Least({ j \in i..(Len(s) + 1) : j = Len(s) + 1 \/ Char(s, j) \notin cs })

\* Vec<&str>::join("\n")
RECURSIVE join_lines(_)
join_lines(lines) ==
    IF Len(lines) = 0 THEN ""
    ELSE IF Len(lines) = 1 THEN Head(lines)
    ELSE Head(lines) \o "\n" \o join_lines(Tail(lines))

\* `line.splitn(2, ';').next().unwrap_or("").trim()` of every line, the empty
\* ones filtered out
RECURSIVE code_lines(_)
code_lines(lines) ==
    IF Len(lines) = 0 THEN <<>>
    ELSE LET keep(code) == IF Len(code) = 0 THEN <<>> ELSE <<code>>
         IN keep(trim(SubSeq(Head(lines), 1, find_from(Head(lines), 1, {";"}) - 1)))
                \o code_lines(Tail(lines))

\* str::lines() of text from position i, the empty lines filtered out
RECURSIVE nonempty_lines(_, _)
nonempty_lines(preprocessed, i) ==
    IF i > Len(preprocessed) THEN <<>>
    ELSE LET rest(j) == (IF j > i THEN <<SubSeq(preprocessed, i, j - 1)>> ELSE <<>>)
                            \o nonempty_lines(preprocessed, j + 1)
         IN rest(find_str(preprocessed, i, "\n"))

\* str::split_whitespace of s from position i
RECURSIVE split_whitespace(_, _)
split_whitespace(s, i) ==
    IF run_end(s, i, TextSpace) > Len(s) THEN <<>>
    ELSE LET token(a, b) == <<SubSeq(s, a, b - 1)>> \o split_whitespace(s, b)
             from(a) == token(a, Least({ j \in a..(Len(s) + 1) :
                                           j = Len(s) + 1 \/ Char(s, j) \in TextSpace }))
         IN from(run_end(s, i, TextSpace))

\* str::replace: every occurrence of pat, from left to right
RECURSIVE str_replace(_, _, _)
str_replace(s, pat, to) ==
    LET at(j) == IF j > Len(s) THEN s
                 ELSE SubSeq(s, 1, j - 1) \o to
                          \o str_replace(Skip(s, j + Len(pat) - 1), pat, to)
    IN at(find_str(s, 1, pat))

NoMatch == [found |-> FALSE]

\* REGEX_MACRO tried at position i, where ".macro" stands.  \s+ \w+ \s+ each
\* take their whole run (a shorter one leaves the next item nothing to match);
\* args is the rest of its line and a '\n' must follow it; the lazy body ends
\* before the first "\n.endmacro".  The text has no empty line and no line
\* that starts or ends with white space: it is the join of code_lines.
macro_at(preprocessed, i) ==
    LET n1 == run_end(preprocessed, i + 6, TextSpace)
        n2 == run_end(preprocessed, n1, WordSet)
        n3 == run_end(preprocessed, n2, TextSpace)
        n4 == find_str(preprocessed, n3, "\n")
        e  == find_str(preprocessed, n4 + 1, "\n.endmacro")
    IN IF n1 > i + 6 /\ n2 > n1 /\ n3 > n2 /\ n3 <= Len(preprocessed)
          /\ n4 <= Len(preprocessed) /\ e <= Len(preprocessed)
       THEN [found |-> TRUE, last |-> e + 9,
             name |-> SubSeq(preprocessed, n1, n2 - 1),
             args |-> split_whitespace(SubSeq(preprocessed, n3, n4 - 1), 1),
             body |-> SubSeq(preprocessed, n4 + 1, e - 1)]
       ELSE NoMatch

\* macro_re.captures_iter(&preprocessed), from position i: the `macros` vector
RECURSIVE collect_macros(_, _)
collect_macros(preprocessed, i) ==
    LET at(j) == IF j > Len(preprocessed) THEN <<>>
                 ELSE LET got(m) == IF m.found THEN <<m>> \o collect_macros(preprocessed, m.last + 1)
                                    ELSE collect_macros(preprocessed, j + 1)
                      IN got(macro_at(preprocessed, j))
    IN at(find_str(preprocessed, i, ".macro"))

\* macro_re.replace_all(&preprocessed, ""), from position i
RECURSIVE remove_macros(_, _)
remove_macros(preprocessed, i) ==
    LET at(j) == IF j > Len(preprocessed) THEN SubSeq(preprocessed, i, Len(preprocessed))
                 ELSE LET got(m) == IF m.found
                                    THEN SubSeq(preprocessed, i, j - 1) \o remove_macros(preprocessed, m.last + 1)
                                    ELSE SubSeq(preprocessed, i, j) \o remove_macros(preprocessed, j + 1)
                      IN got(macro_at(preprocessed, j))
    IN at(find_str(preprocessed, i, ".macro"))

\* the regex `{name}\s+(?P<args>[^\n]+)` tried at position i, where name
\* stands: \s+ takes the longest run of white space (line ends included) that
\* leaves a character other than '\n' for args, and args is the rest of that line
usage_at(preprocessed, i, name) ==
    LET n0 == i + Len(name)
        n1 == run_end(preprocessed, n0, TextSpace)
        starts == { p \in (n0 + 1)..n1 : p <= Len(preprocessed) /\ Char(preprocessed, p) # "\n" }
        stop(p) == find_str(preprocessed, p, "\n")
    IN IF starts = {} THEN NoMatch
       ELSE [found |-> TRUE, last |-> stop(Greatest(starts)) - 1,
             args |-> SubSeq(preprocessed, Greatest(starts), stop(Greatest(starts)) - 1)]

\* the loop `for i in 0..args.len()` from i on (counted from 1): the index
\* definition_args[i] is out of bounds when the usage has more arguments
RECURSIVE substitute(_, _, _, _)
substitute(modified_body, definition_args, args, i) ==
    IF i > Len(args) THEN [panic |-> FALSE, text |-> modified_body]
    ELSE IF i > Len(definition_args) THEN [panic |-> TRUE, text |-> modified_body]
    ELSE substitute(str_replace(modified_body, "$" \o definition_args[i], args[i]),
                    definition_args, args, i + 1)

\* Error::InvalidArgumentCount; the spans, the line number and the line are
\* left empty by the code
InvalidArgumentCount(instruction, n_arguments, expected) ==
    [ok |-> FALSE, value |-> <<>>, error |-> "InvalidArgumentCount",
     instruction |-> instruction, n_arguments |-> n_arguments, expected |-> expected]

\* the closure given to macro_usage_re.replace_all, for one match: the text
\* that replaces the match and the value `error` has after it (an Option, as a
\* set of at most one element)
expand_usage(macro, args, error) ==
    IF args = macro.args
    THEN [panic |-> FALSE, text |-> macro.body, error |-> error]
    ELSE LET r == substitute(macro.body, macro.args, args, 1)
         IN [panic |-> r.panic, text |-> r.text,
             error |-> IF Len(args) # Len(macro.args)
                       THEN {InvalidArgumentCount(macro.name, Len(args),
                                                  <<Len(macro.args)>>)}
                       ELSE error]

\* macro_usage_re.replace_all(&preprocessed, closure), from position i
RECURSIVE replace_usages(_, _, _, _)
replace_usages(preprocessed, i, macro, error) ==
    LET at(j) ==
            IF j > Len(preprocessed)
            THEN [panic |-> FALSE, text |-> SubSeq(preprocessed, i, Len(preprocessed)), error |-> error]
            ELSE LET got(u) ==
                         IF ~u.found
                         THEN LET r == replace_usages(preprocessed, j + 1, macro, error)
                              IN [r EXCEPT !.text = SubSeq(preprocessed, i, j) \o r.text]
                         ELSE LET x == expand_usage(macro, find_iter(u.args, 1), error)
                              IN IF x.panic THEN x
                                 ELSE LET r == replace_usages(preprocessed, u.last + 1, macro, x.error)
                                      IN [r EXCEPT !.text = SubSeq(preprocessed, i, j - 1)
                                                               \o x.text \o r.text]
                 IN got(usage_at(preprocessed, j, macro.name))
    IN at(find_str(preprocessed, i, macro.name))

\* the loop `for Macro { name, args, body } in macros`, from macro i on
RECURSIVE expand_macros(_, _, _)
expand_macros(preprocessed, macros, i) ==
    IF i > Len(macros) THEN Ok(join_lines(nonempty_lines(preprocessed, 1)))
    ELSE LET done(r) == IF r.panic THEN Err("panic")
                        ELSE IF r.error # {} THEN CHOOSE e \in r.error : TRUE
                        ELSE expand_macros(r.text, macros, i + 1)
         IN done(replace_usages(preprocessed, 1, macros[i], {}))

\* preprocess(source)
preprocess_macros(lines) ==
    LET expand(preprocessed) == expand_macros(remove_macros(preprocessed, 1), collect_macros(preprocessed, 1), 1)
    IN expand(join_lines(code_lines(lines)))

\* sources that define the macro INCR with k parameters and use it once with
\* m arguments
MacroParams == <<"a", "b", "c">>
MacroArguments == <<"V0", "V1", "V2", "V3">>
MacroParamCounts == 1..Len(MacroParams)
MacroArgumentCounts == 0..Len(MacroArguments)
ArgumentSeparators == {", ", " "}
LinesAfterUsage == {<<>>, <<"CLS">>}
UsageComments == {"", " ; use"}

RECURSIVE join_with(_, _)
join_with(tokens, sep) ==
    IF Len(tokens) = 0 THEN ""
    ELSE IF Len(tokens) = 1 THEN Head(tokens)
    ELSE Head(tokens) \o sep \o join_with(Tail(tokens), sep)

MacroUsage(m, sep) ==
    IF m = 0 THEN "INCR"
    ELSE "INCR " \o join_with(SubSeq(MacroArguments, 1, m), sep)

MacroSource(k, m, sep, comment, after) ==
    <<".macro INCR " \o join_with(SubSeq(MacroParams, 1, k), " ")>>
        \o [i \in 1..k |-> "ADD $" \o MacroParams[i] \o ", 1"]
        \o <<".endmacro", MacroUsage(m, sep) \o comment>>
        \o after

InitMacro ==
    /\ VmIdle
    /\ \E k \in MacroParamCounts, m \in MacroArgumentCounts,
          sep \in ArgumentSeparators, comment \in UsageComments,
          after \in LinesAfterUsage :
         source = MacroSource(k, m, sep, comment, after)
    /\ files = NoFiles
    /\ tool_loc = "preprocess"
    /\ assembled = NoResult
    /\ listing = <<>>
    /\ reassembled = NoResult
    /\ argv = NoArgs
    /\ exit_code = {}
    /\ output_file = {}

\* `let preprocessed = preprocess(source)?;`: an Err ends assemble, a dead
\* process too
Preprocess ==
    /\ tool_loc = "preprocess"
    /\ assembled' = preprocess_macros(source)
    /\ tool_loc' = IF assembled'.ok THEN "preprocessed"
                   ELSE IF assembled'.error \in Fatal THEN "aborted"
                   ELSE "failed"
    /\ UNCHANGED <<vmvars, volume, loc, opcode, event, polled, keyboard, source,
                   files, listing, reassembled, argv, exit_code, output_file>>

NextMacro == Preprocess

SpecMacro == InitMacro /\ [][NextMacro]_vars

----------------------------------------------------------------------------
(* assemble(source) of sources whose label lies near or past the end of the *)
(* 12-bit address space                                                     *)

\* the sizes of the .space directive before the label
FarSpaces == {\hDFD, \hDFF, \hE00, \hE02, \hF00, \h1E00}

\* the label after .space n; the reference after it, or before the .space
FarLabelSource(ref, n, forward) ==
    IF forward
    THEN <<ref, ".space 0x" \o format_hex(n, 3), "target:", "RET">>
    ELSE <<".space 0x" \o format_hex(n, 3), "target:", "RET", ref>>

InitLabel ==
    /\ VmIdle
    /\ \E ref \in LabelReferences, n \in FarSpaces, forward \in BOOLEAN :
         source = FarLabelSource(ref, n, forward)
    /\ files = NoFiles
    /\ tool_loc = "assemble"
    /\ assembled = NoResult
    /\ listing = <<>>
    /\ reassembled = NoResult
    /\ argv = NoArgs
    /\ exit_code = {}
    /\ output_file = {}

NextLabel == Assemble

SpecLabel == InitLabel /\ [][NextLabel]_vars

----------------------------------------------------------------------------
(* Properties *)

\* the fields of the fetched opcode
OpTop == opcode \div 4096
OpX == (opcode \div 256) % 16
OpY == (opcode \div 16) % 16
OpN == opcode % 16
OpNN == opcode % 256
OpNNN == opcode % 4096

\* this step executes the fetched opcode to its end
ExecStep == loc = "execute" /\ loc' = "sleep"

Rows == 0..(DISPLAY_HEIGHT - 1)
Cols == 0..(DISPLAY_WIDTH - 1)

\* C1: after any Dxyn, VF is 1 if a pixel that was on before the draw is off
\* after it, and 0 otherwise.
C1_DrawSetsCollisionFlag ==
    [][(ExecStep /\ OpTop = \hD) =>
          reg'[15] = IF \E y \in Rows, x \in Cols :
                            display[y][x] # 0 /\ display'[y][x] = 0
                     THEN 1 ELSE 0]_vars

C3_StackBounds ==
    /\ [](sp \in 0..16)
    /\ [][(loc = "execute" /\ ((OpTop = 2 /\ sp = 16) \/ (opcode = \h00EE /\ sp = 0)))
             => loc' = "panicked"]_vars
    /\ [][loc = "panicked" => loc' = "panicked"]_vars

\* the 17th nested CALL has panicked
C3_Witness ==
    loc = "panicked" /\ OpTop = 2 /\ sp = 16

\* C4 as claimed: PC is even after every fetch and after every executed opcode.
C4_PcAlwaysEven ==
    loc \in {"execute", "sleep"} => pc % 2 = 0

\* PC and every return address on the stack are even
Aligned ==
    /\ pc % 2 = 0
    /\ \A i \in 0..(sp - 1) : stack[i] % 2 = 0

\* the fetched opcode is a jump or call to an odd address
OddJump ==
    \/ OpTop \in {1, 2} /\ OpNNN % 2 = 1
    \/ OpTop = \hB /\ (OpNNN + reg[0]) % 2 = 1

\* C4 as amended: PC starts even, and every fetch and every executed opcode other
\* than a 1nnn or 2nnn with odd nnn or a Bnnn with odd nnn + V0 keeps PC (and the
\* return addresses on the stack) even.
C4_PcEvenUntilOddJump ==
    /\ Aligned
    /\ [][(Aligned /\ ~(loc = "execute" /\ OddJump)) => Aligned']_vars

\* a RET has returned to the even address after its CALL
C4_Witness ==
    loc = "sleep" /\ opcode = \h00EE /\ pc = \h202 /\ sp = 0

\* ram[0x000..0x050] holds the font table
FontIntact ==
    \A a \in 0..79 : ram[a] = font_data[a + 1]

\* C5 as claimed: the font bytes equal the font table in every state.
C5_FontNeverModified == FontIntact

\* C5 as amended: the font bytes equal the font table after construction and ROM
\* load, and only an Fx33 or Fx55 executed with I < 0x50 changes any of them.
C5_FontChangedOnlyByStoreAtFont ==
    /\ FontIntact
    /\ [][(\E a \in 0..79 : ram'[a] # ram[a]) =>
             (loc = "execute" /\ OpTop = \hF /\ OpNN \in {\h33, \h55} /\ reg_i < 80)]_vars

\* Fx55 has stored V0 and V1 at 0x310 and the font is as loaded
C5_Witness ==
    /\ loc = "sleep"
    /\ opcode = \hF155
    /\ ram[\h310] = 7
    /\ ram[\h311] = 123
    /\ FontIntact

\* a timer after a 60 Hz update
Decremented(t) == IF t = 0 THEN 0 ELSE t - 1

\* C6: a timer update takes 1 from each nonzero timer and leaves a zero timer at
\* zero; Fx15 and Fx18 assign Vx to DT and ST; nothing else changes a timer.
C6_TimersChangeOnlyByTickAndLoad ==
    /\ [](delay_timer \in 0..255 /\ sound_timer \in 0..255)
    /\ [][loc = "tick" =>
             /\ delay_timer' = Decremented(delay_timer)
             /\ sound_timer' = Decremented(sound_timer)]_vars
    /\ [][(ExecStep /\ OpTop = \hF /\ OpNN = \h15) =>
             /\ delay_timer' = reg[OpX]
             /\ sound_timer' = sound_timer]_vars
    /\ [][(ExecStep /\ OpTop = \hF /\ OpNN = \h18) =>
             /\ sound_timer' = reg[OpX]
             /\ delay_timer' = delay_timer]_vars
    /\ [][(loc # "tick" /\ ~(ExecStep /\ OpTop = \hF /\ OpNN \in {\h15, \h18})) =>
             UNCHANGED <<delay_timer, sound_timer>>]_vars

\* Fx15 has set DT to 2 and the next iteration's timer update has taken 1
C6_Witness ==
    loc = "poll" /\ opcode = \hF015 /\ reg[0] = 2 /\ delay_timer = 1

\* C7 as claimed: after 8xy4, Vx is the sum mod 256 and VF the carry, for every
\* x and y.
C7_AddSetsSumAndCarry ==
    [][(ExecStep /\ OpTop = 8 /\ OpN = 4) =>
          /\ reg'[OpX] = (reg[OpX] + reg[OpY]) % 256
          /\ reg'[15] = IF reg[OpX] + reg[OpY] >= 256 THEN 1 ELSE 0]_vars

\* C7 as amended: after 8xy4, VF is the carry for every x and y, Vx is the sum
\* mod 256 for x # 0xF, and no other register changes.
C7_AddSetsCarryThenSum ==
    [][(ExecStep /\ OpTop = 8 /\ OpN = 4) =>
          /\ reg'[15] = IF reg[OpX] + reg[OpY] >= 256 THEN 1 ELSE 0
          /\ OpX # 15 => reg'[OpX] = (reg[OpX] + reg[OpY]) % 256
          /\ \A i \in 0..14 : i # OpX => reg'[i] = reg[i]]_vars

\* 8F34 has added V3 = 100 to VF = 200: the carry is in VF
C7_Witness ==
    loc = "sleep" /\ opcode = \h8F34 /\ reg[3] = 100 /\ reg[15] = 1

\* C8 as claimed: after 8xy5, Vx is the difference mod 256 and VF is 1 exactly
\* when there was no borrow, for every x and y.
C8_SubSetsDifferenceAndNoBorrow ==
    [][(ExecStep /\ OpTop = 8 /\ OpN = 5) =>
          /\ reg'[OpX] = (reg[OpX] - reg[OpY]) % 256
          /\ reg'[15] = IF reg[OpX] >= reg[OpY] THEN 1 ELSE 0]_vars

\* C8 as amended: after 8xy5, VF is 1 exactly when old Vx >= old Vy for every x
\* and y, Vx is the difference mod 256 for x # 0xF, and no other register changes.
C8_SubSetsNoBorrowThenDifference ==
    [][(ExecStep /\ OpTop = 8 /\ OpN = 5) =>
          /\ reg'[15] = IF reg[OpX] >= reg[OpY] THEN 1 ELSE 0
          /\ OpX # 15 => reg'[OpX] = (reg[OpX] - reg[OpY]) % 256
          /\ \A i \in 0..14 : i # OpX => reg'[i] = reg[i]]_vars

\* 8F35 has subtracted V3 = 200 from VF = 100: VF is 0, not the difference 156
C8_Witness ==
    loc = "sleep" /\ opcode = \h8F35 /\ reg[3] = 200 /\ reg[15] = 0

\* C9: from the Fx0A on, while waiting_for_key stays set, the loop is never at
\* the fetch or the execute, no step changes PC, I, SP, the stack, RAM, the
\* display or a V register, a timer update still takes 1 from DT and ST, and
\* the event loop still takes events.
C9_SuspendedWhileWaiting ==
    /\ [](waiting_for_key # {} => loc \notin {"fetch", "execute"})
    /\ [][(waiting_for_key # {} /\ waiting_for_key' # {}) =>
             UNCHANGED <<pc, reg_i, sp, stack, ram, display, reg>>]_vars
    /\ [][(waiting_for_key # {} /\ loc = "tick") =>
             /\ delay_timer' = Decremented(delay_timer)
             /\ sound_timer' = Decremented(sound_timer)]_vars
    /\ [][(waiting_for_key # {} /\ loc = "suspend") => loc' = "while"]_vars
    /\ []((waiting_for_key # {} /\ loc = "poll" /\ polled < MaxEventsPerPoll)
              => ENABLED PollEvent)

\* during the wait of RomWaitKey the timer set to 2 has run down to 0 and an
\* event that does not end the wait has been taken
C9_Witness ==
    /\ waiting_for_key = {3}
    /\ loc = "poll"
    /\ event # {}
    /\ reg[0] = 2
    /\ delay_timer = 0
    /\ reg[3] = 200

\* the keypad layout: host key -> CHIP-8 key
\*   1 2 3 4     1 2 3 C
\*   Q W E R     4 5 6 D
\*   A S D F     7 8 9 E
\*   Z X C V     A 0 B F
KeypadLayout ==
    { <<"Num1", 1>>, <<"Num2", 2>>, <<"Num3", 3>>, <<"Num4", 12>>,
      <<"Q", 4>>, <<"W", 5>>, <<"E", 6>>, <<"R", 13>>,
      <<"A", 7>>, <<"S", 8>>, <<"D", 9>>, <<"F", 14>>,
      <<"Z", 10>>, <<"X", 0>>, <<"C", 11>>, <<"V", 15>> }

\* this step is one turn of the event loop, taking event e
Takes(e) == loc = "poll" /\ polled' = polled + 1 /\ event' = {e}

\* e is the release of the host key of a keypad key
MappedRelease(e) ==
    e.kind = "KeyUp" /\ \E p \in KeypadLayout : p[1] = e.scancode

\* C10: while waiting_for_key = Some(x), the release of a mapped host key puts
\* that key's CHIP-8 value in Vx and ends the wait, leaving PC at the
\* instruction after the Fx0A; any other event leaves Vx and the wait as they
\* are; with no wait set, no event changes a register or starts a wait.
C10_WaitEndsOnMappedRelease ==
    /\ [](\A x \in waiting_for_key :
             /\ pc >= 2
             /\ ram[pc - 2] * 256 + ram[pc - 1] = \hF00A + 256 * x)
    /\ [][\A e \in Events, x \in waiting_for_key :
             (Takes(e) /\ MappedRelease(e)) =>
                 /\ \A p \in KeypadLayout :
                        p[1] = e.scancode => reg' = [reg EXCEPT ![x] = p[2]]
                 /\ waiting_for_key' = {}
                 /\ UNCHANGED <<pc, ram, sp, stack, reg_i>>]_vars
    /\ [][\A e \in Events :
             (Takes(e) /\ ~MappedRelease(e)) =>
                 UNCHANGED <<reg, waiting_for_key, pc>>]_vars
    /\ [][\A e \in Events :
             (Takes(e) /\ waiting_for_key = {}) =>
                 UNCHANGED <<reg, waiting_for_key, pc>>]_vars

\* the wait of RomWaitKey has ended on the release of host key 4 (CHIP-8 key C)
\* and the ADD V3, 1 after the Fx0A has run
C10_Witness ==
    loc = "sleep" /\ opcode = \h7301 /\ reg[3] = 13 /\ waiting_for_key = {}

\* the position that follows position l in VM::mainloop, as the code orders the
\* steps: timer update, event loop, suspension check, fetch, execute, sleep
LoopOrder(l, l2) ==
    CASE l = "while"   -> l2 \in {"timer", "exited"}
      [] l = "timer"   -> l2 \in {"tick", "poll"}
      [] l = "tick"    -> l2 = "poll"
      [] l = "poll"    -> l2 \in {"poll", "suspend"}
      [] l = "suspend" -> l2 \in {"while", "fetch"}
      [] l = "fetch"   -> l2 \in {"execute", "panicked"}
      [] l = "execute" -> l2 \in {"sleep", "panicked"}
      [] l = "sleep"   -> l2 = "while"
      [] OTHER         -> FALSE

\* the order of the steps as the claim has it: event loop, timer update,
\* suspension check, fetch, execute, sleep
ClaimedLoopOrder(l, l2) ==
    CASE l = "while"   -> l2 \in {"poll", "exited"}
      [] l = "poll"    -> l2 \in {"poll", "timer"}
      [] l = "timer"   -> l2 \in {"tick", "suspend"}
      [] l = "tick"    -> l2 = "suspend"
      [] l = "suspend" -> l2 \in {"while", "fetch"}
      [] l = "fetch"   -> l2 \in {"execute", "panicked"}
      [] l = "execute" -> l2 \in {"sleep", "panicked"}
      [] l = "sleep"   -> l2 = "while"
      [] OTHER         -> FALSE

\* what the event loop has made of the VM reaches the execute step unchanged:
\* the end of the event loop and the suspension check change no field, the
\* fetch changes the program counter only
EventsReachExecute ==
    /\ (loc = "poll" /\ loc' = "poll") =>
           \E e \in Events : /\ event' = {e}
                             /\ running' = handle_event(VM, e).running
                             /\ reg' = handle_event(VM, e).reg
                             /\ waiting_for_key' = handle_event(VM, e).waiting_for_key
    /\ ((loc = "poll" /\ loc' = "suspend") \/ loc = "suspend") => UNCHANGED vmvars
    /\ loc = "fetch" =>
           UNCHANGED <<running, ram, reg, reg_i, stack, sp, delay_timer,
                       sound_timer, waiting_for_key, display>>

\* C11 as claimed: in every iteration the steps are event polling, timer
\* update, suspension check, fetch, execute, sleep, in this order, and the
\* events of an iteration are visible to its execute step.
C11_PollThenTimerOrder ==
    [][ClaimedLoopOrder(loc, loc') /\ EventsReachExecute]_vars

\* C11 as amended: in every iteration the steps are timer update (if due),
\* event polling, suspension check, fetch, execute, sleep, in this order, and
\* the events of an iteration are visible to its execute step.
C11_TimerThenPollOrder ==
    [][LoopOrder(loc, loc') /\ EventsReachExecute]_vars

\* RomWaitKey: the release of host key 4 (CHIP-8 key C) was taken by the event
\* loop of this iteration, which has gone on to fetch the ADD V3, 1
C11_Witness ==
    loc = "execute" /\ opcode = \h7301 /\ reg[3] = 12 /\ waiting_for_key = {}

\* C12: once running is false it stays false; the loop test that follows ends
\* the loop, so no new iteration starts and no timer update, event loop, fetch
\* or execute runs after the iteration in which Escape was pressed; a VM that
\* is still waiting for a key goes from the suspension check to the loop test
\* with the wait unresolved.
C12_QuitEndsLoop ==
    /\ [][~running => ~running']_vars
    /\ [][\A e \in Events :
            (loc = "poll" /\ event' = {e} /\ e.kind = "KeyDown"
               /\ e.scancode = "Escape") => ~running']_vars
    /\ [][(~running /\ loc = "while") => loc' = "exited"]_vars
    /\ [][loc = "exited" => FALSE]_vars
    /\ [](~running => loc \notin {"timer", "tick"})
    /\ [][(~running /\ loc = "suspend" /\ waiting_for_key # {}) =>
            (loc' = "while" /\ UNCHANGED <<reg, waiting_for_key, pc>>)]_vars

\* RomWaitKey: the loop has ended on Escape while the VM waited for a key
C12_Witness ==
    loc = "exited" /\ ~running /\ waiting_for_key = {3}

\* the words the instruction set defines
DefinedOpcode(op) ==
    LET top == op \div 4096
        n   == op % 16
        nn  == op % 256
    IN CASE top = 0 -> op \in {\h00E0, \h00EE}
         [] top \in {5, 9} -> n = 0
         [] top = 8 -> n \in {0, 1, 2, 3, 4, 5, 6, 7, \hE}
         [] top = \hE -> nn \in {\h9E, \hA1}
         [] top = \hF -> nn \in {\h07, \h0A, \h15, \h18, \h1E, \h29, \h33,
                                 \h55, \h65}
         [] OTHER -> TRUE

\* C13: executing a word that is not a defined opcode is a fatal fault; the
\* interpreter never goes on to the next instruction.
C13_UndefinedOpcodeIsFatal ==
    [][(loc = "execute" /\ ~DefinedOpcode(opcode)) => loc' = "panicked"]_vars

\* the ROM 60 05 61 03 80 14 00 00 is loaded at 0x200
AddRomLoaded ==
    \A i \in 1..Len(RomAddThenNative) :
        ram[PROGRAM_START + i - 1] = RomAddThenNative[i]

\* the fourth fetch of that ROM, the first one that returns 0000, has been made
FourFetchesDone == AddRomLoaded /\ loc = "execute" /\ opcode = \h0000

\* C20: the ROM 60 05 61 03 80 14 00 00 run from PC = 0x200 with all registers
\* 0: after four fetches V0 = 8, V1 = 3, VF = 0 and PC = 0x208.
C20_AddRomAfterFourFetches ==
    FourFetchesDone =>
        (reg[0] = 8 /\ reg[1] = 3 /\ reg[15] = 0 /\ pc = \h208)

\* the fourth fetch of the ROM has been made and V0 holds the sum
C20_Witness ==
    FourFetchesDone /\ reg[0] = 8 /\ pc = \h208

----------------------------------------------------------------------------
(* The assembler and the disassembler *)

\* the two assembler runs and the disassembler run between them are over, for
\* a source without .include
RoundTripDone == tool_loc = "done" /\ files = NoFiles

\* C14: for every valid source without .include, the disassembly of its bytes
\* is accepted by assemble and assembles to the same bytes
C14_RoundTripIsIdentity ==
    RoundTripDone => reassembled.ok /\ reassembled.value = assembled.value

\* C15: a literal of value >= 2^b in a field of b bits makes assemble fail
\* with ArgumentOverflow, and no byte is produced
C15_OverflowIsArgumentOverflow ==
    (source \in OverflowSources /\ tool_loc # "assemble")
        => /\ ~assembled.ok
           /\ assembled.error = "ArgumentOverflow"
           /\ assembled.value = <<>>

\* the labels a preprocessed source defines
LabelsOf(lines) ==
    { trim_end_matches(lines[i], {":"}) :
        i \in { j \in 1..Len(lines) : ends_with(lines[j], ":") } }

\* the line that defines label
DefinitionOf(lines, label) ==
    CHOOSE i \in 1..Len(lines) : lines[i] = label \o ":"

\* the statements of the lines that are no label definitions
StatementsOf(lines) ==
    LET code == SelectSeq(lines, LAMBDA l : ~ends_with(l, ":"))
    IN [i \in 1..Len(code) |-> Statement(find_iter(code[i], 1))]

\* the number of bytes the lines before line k put into the output stream:
\* the offset of the first byte emitted after them
OffsetOf(lines, k) ==
    Len(second_pass([l \in LabelsOf(lines) |-> 0],
                    StatementsOf(SubSeq(lines, 1, k - 1)), 1, <<>>,
                    NoFiles, MaxIncludeDepth).value)

\* the label a line refers to: its last lexeme, if that is a label of lines
ReferenceOf(lines, k) ==
    LET lexemes == find_iter(lines[k], 1)
    IN IF ends_with(lines[k], ":") THEN {}
       ELSE {lexemes[Len(lexemes)]} \cap LabelsOf(lines)

\* the 16-bit word at byte offset o of bytes
WordAt(bytes, o) == bytes[o + 1] * 256 + bytes[o + 2]

\* the source with every label reference replaced by the address literal
\* 0x200 + offset of the label, and without the label definitions
Resolved(lines) ==
    LET address(label) == PROGRAM_START + OffsetOf(lines, DefinitionOf(lines, label))
        line(k) ==
            IF ReferenceOf(lines, k) = {} THEN lines[k]
            ELSE LET label == CHOOSE l \in ReferenceOf(lines, k) : TRUE
                 IN SubSeq(lines[k], 1, Len(lines[k]) - Len(label))
                        \o format_dec(address(label))
    IN SelectSeq([k \in 1..Len(lines) |-> line(k)], LAMBDA l : ~ends_with(l, ":"))

\* C16: the operand of every label reference, forward or backward, is 0x200
\* plus the offset in the output of the first byte emitted after the label
\* definition, whatever the width of the directives before the label; the
\* bytes are those of the source with the addresses written out
C16_LabelOperandIsOffset ==
    (source \in LabelSources /\ tool_loc # "assemble")
        => /\ assembled.ok
           /\ \A k \in 1..Len(source) :
                \A label \in ReferenceOf(source, k) :
                    WordAt(assembled.value, OffsetOf(source, k)) % 4096
                        = PROGRAM_START
                            + OffsetOf(source, DefinitionOf(source, label))
           /\ assembled = assemble(Resolved(source))

\* a forward and a backward reference to a label that stands after a
\* directive of five bytes and after a directive of sixty-four bytes
C16_Witness ==
    /\ tool_loc = "done"
    /\ \/ /\ source = <<"JP target", ".space 5", "target:", ".space 5", "JP target">>
          /\ SubSeq(assembled.value, 1, 2) = <<\h12, \h07>>
          /\ SubSeq(assembled.value, 13, 14) = <<\h12, \h07>>
       \/ /\ source = <<"LD I, target", ".space 24", "target:", "RET">>
          /\ SubSeq(assembled.value, 1, 2) = <<\hA2, \h1A>>

\* C17: assembling a file whose .include directives form a cycle ends with an
\* IncludeError
C17_IncludeCycleIsIncludeError ==
    (files \in CyclicFileSystems /\ tool_loc # "assemble")
        => ~assembled.ok /\ assembled.error = "IncludeError"

\* the cases of the instruction table the source is one of
CasesOf(lines) == { c \in InstructionCases : lines = <<c.line>> }

\* C18: every form of the instruction table, with in-range operands and the
\* mnemonic in any case, assembles to exactly the two bytes of the opcode of
\* the table, high byte first
C18_InstructionEncoding ==
    tool_loc # "assemble"
        => \A c \in CasesOf(source) :
              /\ assembled.ok
              /\ Len(assembled.value) = 2
              /\ assembled.value = <<c.opcode \div 256, c.opcode % 256>>

\* a DRW in lower case with binary nibble, a register-to-memory LD and a SE
\* between registers have been assembled
C18_Witness ==
    /\ tool_loc = "done"
    /\ \/ source = <<"drw VA, VF, 0b101">> /\ assembled.value = <<\hDA, \hF5>>
       \/ source = <<"Ld [I], V3">> /\ assembled.value = <<\hF3, \h55>>
       \/ source = <<"SE VF, V7">> /\ assembled.value = <<\h5F, \h70>>

\* a disassembler run has ended
DisassemblerExited == argv.command = "disassembler" /\ tool_loc = "exited"

\* the disassembler run was given its two paths, read its input and wrote
\* its output
DisassemblerSucceeded ==
    argv.argc = 3 /\ RomPath \in DOMAIN files /\ argv.writable

\* C19: the disassembler exits with 0 only on success, with 1 on a wrong
\* argument count and with 2 when the input cannot be processed, as the
\* assembler does
C19_DisassemblerExitCodes ==
    DisassemblerExited
        => /\ exit_code = {0} <=> DisassemblerSucceeded
           /\ argv.argc # 3 => exit_code = {1}
           /\ (argv.argc = 3 /\ RomPath \notin DOMAIN files) => exit_code = {2}

----------------------------------------------------------------------------
(* Sprites, calls, shifts, register blocks, keys, memory bounds *)

\* the opcode ram holds at addr, big-endian
WordIn(addr) == ram[addr] * 256 + ram[addr + 1]

\* the Dxyn at 0x20C has just been executed, and the instruction before it,
\* at 0x20A, is the same Dxyn: the two draws of DrawTwiceRom
DrawnTwice ==
    /\ loc = "sleep"
    /\ pc = \h20E
    /\ OpTop = \hD
    /\ WordIn(\h20A) = opcode
    /\ WordIn(\h20C) = opcode

\* the VM before the first of the two draws: the ROM in ram run from the
\* start for its first five instructions (the ROM stores nothing into ram)
BeforeTwoDraws == run([new EXCEPT !.ram = ram], 5)

\* the Dxyn at 0x20A has just been executed, the Dxyn at 0x206 is the same
\* and V0 was not moved in between (ADD V0, 0): two draws onto a blank display
BlankDrawnTwice ==
    /\ loc = "sleep"
    /\ pc = \h20C
    /\ OpTop = \hD
    /\ WordIn(\h206) = opcode
    /\ WordIn(\h208) = \h7000

\* C21: the same Dxyn executed twice in a row gives every pixel the value it
\* had before the first of the two draws; after two draws onto a blank
\* display the display is all zero
C21_DrawTwiceRestores ==
    /\ DrawnTwice => display = BeforeTwoDraws.display
    /\ BlankDrawnTwice => display = new.display

\* the two draws were made over a display the draw at another column had
\* lit, and five rows of it are lit again
C21_Witness ==
    /\ DrawnTwice
    /\ WordIn(\h208) = \h7004
    /\ reg[0] = 4 /\ reg[1] = 0 /\ OpN = 5
    /\ \E y \in Rows, x \in Cols : display[y][x] = 255
    /\ display = BeforeTwoDraws.display

\* C23: 2nnn stores the address of the instruction after the CALL at
\* stack[SP], increments SP and jumps to nnn; 00EE decrements SP and jumps to
\* the stored address, which is the instruction after the CALL of the same
\* nesting depth; at any depth up to 16 no call or return fails, and back in
\* block 0 SP is 0 again
C23_CallRetLifo ==
    /\ [][(ExecStep /\ OpTop = 2)
             => /\ WordIn(pc - 2) = opcode
                /\ stack' = [stack EXCEPT ![sp] = pc]
                /\ sp' = sp + 1
                /\ pc' = OpNNN]_vars
    /\ [][(ExecStep /\ opcode = \h00EE)
             => /\ sp' = sp - 1
                /\ pc' = stack[sp - 1]
                /\ pc' = BlockAddr(sp') + 2
                /\ WordIn(pc' - 2) \div 4096 = 2
                /\ stack' = stack]_vars
    /\ [](loc # "panicked")
    /\ []((loc = "sleep" /\ pc = BlockAddr(0) + 2) => sp = 0)

\* sixteen nested calls have returned, innermost first: the last RET has
\* brought the VM back to block 0, and the sixteenth return address is still
\* in the last slot of the stack
C23_Witness ==
    /\ loc = "sleep"
    /\ opcode = \h00EE
    /\ pc = BlockAddr(0) + 2
    /\ sp = 0
    /\ stack[STACK_SIZE - 1] = BlockAddr(STACK_SIZE - 1) + 2

\* the rectangle a Dxyn opcode may touch, from the registers before the step
DrawLeft == reg[OpX] % DISPLAY_WIDTH
DrawTop == reg[OpY] % DISPLAY_HEIGHT
DrawRight == IF DrawLeft + 8 < DISPLAY_WIDTH THEN DrawLeft + 8 ELSE DISPLAY_WIDTH
DrawBottom == IF DrawTop + OpN < DISPLAY_HEIGHT THEN DrawTop + OpN ELSE DISPLAY_HEIGHT
InDrawRect(y, x) == DrawLeft <= x /\ x < DrawRight /\ DrawTop <= y /\ y < DrawBottom

C24_WitnessFlagRegister ==
    loc = "sleep" /\ opcode = \h8F3E /\ reg[3] = 128 /\ reg[15] = 1

\* the registers the first five instructions of the ROM in ram leave
RegsBeforeStore == run([new EXCEPT !.ram = ram], 5).reg

\* C25: where ram[I .. I + x] exists, Fx55 writes V0..Vx there in order,
\* Fx65 reads V0..Vx from there, each leaves I = old I + x + 1 and changes
\* nothing else (RAM outside the range, the registers after Vx, RAM at all
\* for Fx65); Fx55, I set back, Fx65 with the same x gives V0..Vx the values
\* they had before the Fx55
C25_RegisterBlocks ==
    /\ [][(ExecStep /\ OpTop = \hF /\ OpNN = \h55 /\ reg_i + OpX < RAM_SIZE) =>
             /\ \A k \in 0..(RAM_SIZE - 1) :
                    ram'[k] = IF reg_i <= k /\ k <= reg_i + OpX
                              THEN reg[k - reg_i] ELSE ram[k]
             /\ reg_i' = reg_i + OpX + 1
             /\ reg' = reg
             /\ loc' = "sleep"]_vars
    /\ [][(ExecStep /\ OpTop = \hF /\ OpNN = \h65 /\ reg_i + OpX < RAM_SIZE) =>
             /\ \A i \in 0..15 :
                    reg'[i] = IF i <= OpX THEN ram[reg_i + i] ELSE reg[i]
             /\ reg_i' = reg_i + OpX + 1
             /\ ram' = ram
             /\ loc' = "sleep"]_vars
    /\ []((loc = "sleep" /\ pc = \h216 /\ OpTop = \hF /\ OpNN = \h65) =>
             \A i \in 0..OpX : reg[i] = RegsBeforeStore[i])

\* V0..V2 = 200, 2, 255 and VF = 9 were stored at 0xFF0..0xFFF by FF55,
\* V0, V1 and VF overwritten, and FF65 has loaded all sixteen back; I is 0x1000
C25_Witness ==
    /\ loc = "sleep" /\ pc = \h216 /\ opcode = \hFF65
    /\ reg[0] = 200 /\ reg[1] = 2 /\ reg[2] = 255 /\ reg[15] = 9
    /\ ram[\hFF0] = 200 /\ ram[\hFFF] = 9
    /\ reg_i = \h1000

\* the key Ex9E / ExA1 would test if Vx were masked, held or not in the
\* keyboard state the host reports to this step
MaskedKeyDown == chip8_key_to_scancode(reg[OpX] % 16) \subseteq keyboard'

\* C26: for every Vx in 0..255, Ex9E and ExA1 test key Vx & 0xF: Ex9E adds 2
\* to PC iff that key is down, ExA1 iff it is not, and the step neither faults
\* nor changes anything else, Vx > 15 included
C26_KeySkipsMaskVx ==
    [][(loc = "execute" /\ OpTop = \hE /\ OpNN \in {\h9E, \hA1}) =>
          /\ loc' = "sleep"
          /\ pc' = IF (OpNN = \h9E) = MaskedKeyDown THEN pc + 2 ELSE pc
          /\ UNCHANGED <<running, ram, reg, reg_i, stack, sp, delay_timer,
                         sound_timer, waiting_for_key, display>>]_vars

\* what the code does: the same for Vx <= 15, a fatal fault for Vx > 15
C26_KeySkipsOrFaults ==
    [][(loc = "execute" /\ OpTop = \hE /\ OpNN \in {\h9E, \hA1}) =>
          /\ reg[OpX] <= 15 =>
                /\ loc' = "sleep"
                /\ pc' = IF (OpNN = \h9E) = MaskedKeyDown THEN pc + 2 ELSE pc
          /\ reg[OpX] > 15 => loc' = "panicked" /\ pc' = pc
          /\ UNCHANGED <<running, ram, reg, reg_i, stack, sp, delay_timer,
                         sound_timer, waiting_for_key, display>>]_vars

\* SKP V0 with V0 = 21 has ended the interpreter, with key 5 (W) held
C26_Fault ==
    loc = "panicked" /\ opcode = \hE09E /\ reg[0] = 21 /\ keyboard = {"W"}

\* C27: a macro defined with k parameters and used with m # k arguments, fewer
\* or more, makes preprocess return InvalidArgumentCount with expected = [k]
\* and the count m found; the process does not die and no text is returned
C27_ArgumentCountMismatchIsError ==
    \A k \in MacroParamCounts, m \in MacroArgumentCounts, sep \in ArgumentSeparators,
       comment \in UsageComments, after \in LinesAfterUsage :
        (tool_loc # "preprocess" /\ m # k
           /\ source = MacroSource(k, m, sep, comment, after))
          => /\ tool_loc = "failed"
             /\ assembled.error = "InvalidArgumentCount"
             /\ assembled.n_arguments = m
             /\ assembled.expected = <<k>>

\* what the code does: the error exactly when the count found by the usage
\* regex is below k, that count being m, or 1 for a bare name followed by a
\* line, which is taken for its argument; a dead process when it is above k
FoundCount(m, after) == IF m = 0 THEN Len(after) ELSE m

C27_FewerIsErrorMoreAborts ==
    \A k \in MacroParamCounts, m \in MacroArgumentCounts, sep \in ArgumentSeparators,
       comment \in UsageComments, after \in LinesAfterUsage :
        (tool_loc # "preprocess" /\ source = MacroSource(k, m, sep, comment, after))
          => IF FoundCount(m, after) > k THEN tool_loc = "aborted"
             ELSE IF FoundCount(m, after) = k \/ FoundCount(m, after) = 0
                  THEN tool_loc = "preprocessed"
             ELSE /\ tool_loc = "failed"
                  /\ assembled = InvalidArgumentCount("INCR", FoundCount(m, after), <<k>>)

\* INCR, defined with one parameter, was used with two arguments: the process died
C27_Aborted ==
    /\ tool_loc = "aborted"
    /\ source = <<".macro INCR a", "ADD $a, 1", ".endmacro", "INCR V0, V1">>
    /\ assembled.error = "panic"

\* INCR, defined with two parameters, was used with one: the structured error
C27_Witness ==
    /\ tool_loc = "failed"
    /\ source = <<".macro INCR a b", "ADD $a, 1", "ADD $b, 1", ".endmacro", "INCR V0">>
    /\ assembled = InvalidArgumentCount("INCR", 1, <<2>>)

\* a use with the right count is replaced by the body with the arguments in it
C27_Expanded ==
    /\ tool_loc = "preprocessed"
    /\ source = <<".macro INCR a b", "ADD $a, 1", "ADD $b, 1", ".endmacro",
                  "INCR V0, V1 ; use", "CLS">>
    /\ assembled.value = "ADD V0, 1\nADD V1, 1\nCLS"

\* C28: assemble returns Ok(bytes) or an Error value for every source; the
\* process never dies, a line of commas only included
C28_AssembleIsTotal ==
    (files = NoFiles /\ tool_loc # "assemble")
        => /\ tool_loc # "aborted"
           /\ assembled.ok \/ assembled.error \notin Fatal

\* the source CLS / ,, / RET has killed the process: the line of commas has
\* no lexeme and first_pass indexes lexemes[0]
C28_Aborted ==
    /\ tool_loc = "aborted"
    /\ source = <<"CLS", ",,", "RET">>
    /\ files = NoFiles
    /\ assembled.error = "panic"

\* the base of the opcode a reference to a label assembles to
ReferenceBase(ref) ==
    CASE ref = "SYS target" -> \h0000
      [] ref = "JP target" -> \h1000
      [] ref = "CALL target" -> \h2000
      [] ref = "LD I, target" -> \hA000
      [] ref = "JP V0, target" -> \hB000

\* the address of the label of FarLabelSource(ref, n, forward) in memory
TargetAddress(n, forward) == PROGRAM_START + n + (IF forward THEN 2 ELSE 0)

\* the opcode emitted for the reference: the first two bytes, or the last two
ReferenceOpcode(bytes, forward) ==
    IF forward THEN bytes[1] * 256 + bytes[2]
    ELSE bytes[Len(bytes) - 1] * 256 + bytes[Len(bytes)]

\* C29: the address OR-ed into SYS, JP, CALL, LD I, JP V0 fits 12 bits, so the
\* opcode is the base plus the address of the label; a label whose address
\* in memory is 0x1000 or more makes assemble report an error
C29_LabelAddressFitsOrFails ==
    \A ref \in LabelReferences, n \in FarSpaces, forward \in BOOLEAN :
        (tool_loc # "assemble" /\ source = FarLabelSource(ref, n, forward))
          => IF TargetAddress(n, forward) >= \h1000
             THEN ~assembled.ok /\ assembled.error \notin Fatal
             ELSE /\ assembled.ok
                  /\ ReferenceOpcode(assembled.value, forward)
                         = ReferenceBase(ref) + TargetAddress(n, forward)

\* what the code does: no error; the address, as wide as it is, is OR-ed in
C29_LabelAddressIsOredIn ==
    \A ref \in LabelReferences, n \in FarSpaces, forward \in BOOLEAN :
        (tool_loc # "assemble" /\ source = FarLabelSource(ref, n, forward))
          => /\ assembled.ok
             /\ ReferenceOpcode(assembled.value, forward)
                    = BitOr16(ReferenceBase(ref), TargetAddress(n, forward))

\* LD I, target with the label at 0x1000 has assembled to B000, a JP V0, 0
C29_WrongNibble ==
    /\ tool_loc = "disassemble"
    /\ source = FarLabelSource("LD I, target", \hE00, FALSE)
    /\ assembled.ok
    /\ Len(assembled.value) = \hE00 + 4
    /\ ReferenceOpcode(assembled.value, FALSE) = \hB000

\* the number of bytes of RAM the fetched opcode reads or writes, from I on
AccessCount ==
    CASE OpTop = \hD ->
            IF OpN < DISPLAY_HEIGHT - (reg[OpY] % DISPLAY_HEIGHT)
            THEN OpN ELSE DISPLAY_HEIGHT - (reg[OpY] % DISPLAY_HEIGHT)
      [] OpTop = \hF /\ OpNN = \h33 -> 3
      [] OpTop = \hF /\ OpNN \in {\h55, \h65} -> OpX + 1
      [] OTHER -> 0

\* C30: RAM is indexed by 0..4095 only.  A fetch with PC + 1 past the end, and
\* a Dxyn, Fx33, Fx55 or Fx65 whose last index from I is past the end, ends
\* the interpreter; the step goes through otherwise.  No index wraps: a
\* faulting step leaves RAM below I as it was, and a faulting Fx65 leaves the
\* registers whose byte would lie past the end.  Fx1E wraps I at 2^16 only and
\* Bnnn sets PC to nnn + V0 unreduced.
C30_RamAccessInBounds ==
    /\ [](DOMAIN ram = 0..(RAM_SIZE - 1) /\ reg_i \in 0..65535)
    /\ [][loc = "fetch" =>
             IF pc + 1 < RAM_SIZE
             THEN loc' = "execute" /\ opcode' = ram[pc] * 256 + ram[pc + 1]
             ELSE loc' = "panicked" /\ UNCHANGED <<ram, reg, reg_i, display>>]_vars
    /\ [][(loc = "execute" /\ AccessCount > 0) =>
             IF reg_i + AccessCount - 1 < RAM_SIZE
             THEN loc' = "sleep"
             ELSE /\ loc' = "panicked"
                  /\ \A k \in 0..(RAM_SIZE - 1) : k < reg_i => ram'[k] = ram[k]
                  /\ (OpTop = \hF /\ OpNN = \h65) =>
                        \A i \in 0..15 : reg_i + i >= RAM_SIZE => reg'[i] = reg[i]]_vars
    /\ [][(ExecStep /\ OpTop = \hF /\ OpNN = \h1E) =>
             reg_i' = (reg_i + reg[OpX]) % 65536]_vars
    /\ [][(ExecStep /\ OpTop = \hB) => pc' = OpNNN + reg[0]]_vars

\* LD [I], V2 with I = 0xFFF has written V0 = 1 to the last byte and ended the
\* interpreter at index 0x1000; the first byte of the font is as it was
C30_Witness ==
    /\ loc = "panicked" /\ opcode = \hF255
    /\ reg[0] = 1 /\ ram[\hFFF] = 1 /\ reg_i = \h1000
    /\ ram[0] = \hF0

\* the fetch after the instruction in the last two bytes has ended the interpreter
C30_RanOffTheEnd ==
    loc = "panicked" /\ opcode = \h6001 /\ pc = \h1000

\* 241 additions of 255 have taken I from 0xFFF around 2^16 to 14
C30_IndexWrapped ==
    loc = "sleep" /\ opcode = \hF01E /\ pc = \h3E6 /\ reg_i = 14

====
